---- MODULE Spec2Model ----
(***************************************************************************)
(* The preview/export engine of components/VideoPreview.tsx as a state     *)
(* machine: the React state of the component, its refs, the closures of    *)
(* the playback effect and of handleFinalizeAndRender, and the browser's   *)
(* event loop (timers, animation frames) that runs their callbacks.        *)
(*                                                                         *)
(* Time is counted in ticks of 50 ms: FADE_DURATION = 0.5 s = 10 ticks,    *)
(* the progress interval of 100 ms = 2 ticks.  Scene indices are 0-based   *)
(* as in the source; sequences are 1-based, so scene i is durs[i + 1].     *)
(***************************************************************************)
EXTENDS Integers, Sequences, FiniteSets, TLC

\* ------------------------------------------------------------ constants
FADE_DURATION == 10
TRANSITION_DURATION == 10
PROGRESS_INTERVAL == 2

\* ------------------------------------------------------------ bounds
MaxScenes == 2
MaxDur == 2
MaxNow == 4
MaxLate == 0

\* the null of a ref, a timer handle or a prop
None == 0 - 1

\* ------------------------------------------------------------ helpers
RECURSIVE SumTo(_, _)
\* segmentDurations.slice(0, n).reduce((acc, dur) => acc + dur, 0)
SumTo(durations, n) ==
  IF n <= 0 THEN 0 ELSE SumTo(durations, n - 1) + durations[n]

\* totalDuration: the sum of the segment durations
TotalDuration(durations) == SumTo(durations, Len(durations))

\* a faulty variant of SceneTest: the boundary goes to the earlier scene
SceneTestInclusive(elapsed, sceneEnd) == elapsed <= sceneEnd

\* the loop's test `elapsed < sceneStartTime + segmentDurations[i]`
SceneTest(elapsed, sceneEnd) == elapsed < sceneEnd

RECURSIVE SceneLoop(_, _, _, _)
\* for (let i = 0; i < segmentDurations.length; i++) { if (...) {...; break;} sceneStartTime += ... }
SceneLoop(durations, elapsed, i, sceneStartTime) ==
  IF i >= Len(durations)
  THEN [currentSceneIdx |-> 0, timeIntoScene |-> 0, found |-> FALSE]
  ELSE IF SceneTest(elapsed, sceneStartTime + durations[i + 1])
       THEN [currentSceneIdx |-> i, timeIntoScene |-> elapsed - sceneStartTime,
             found |-> TRUE]
       ELSE SceneLoop(durations, elapsed, i + 1, sceneStartTime + durations[i + 1])

\* let currentSceneIdx = 0; let timeIntoScene = 0; let sceneStartTime = 0; for (...)
ResolveScene(durations, elapsed) == SceneLoop(durations, elapsed, 0, 0)

\* setProgress((t / totalDuration) * 100), kept as the whole percent; 0/0 is NaN
Progress(t, total) == IF total = 0 THEN None ELSE (t * 100) \div total

\* ------------------------------------------------------------ state
VARIABLES
  \* props of VideoPreview
  version,              \* generationVersion: "v1" | "v2"
  durs,                 \* segmentDurations: voiceovers.get(s.id)?.duration || 0
  mediaCount,           \* mediaAssets.length, None when mediaAssets is null
  imagesLoad,           \* whether every image (and the watermark) fires onload
  selectedMusic,        \* selectedMusic !== null
  musicBuffer,          \* duration of the decoded music, None when null
  musicFetch,           \* fetchMusic(): "none" | "pending" | "done" | "failed"
  imagesV2,             \* the imagesV2 map: "empty" | "loaded"
  musicTrack,           \* the track that is selectedMusic, None when null
  musicSelections,      \* how often selectedMusic has changed since the mount
  musicFetches,         \* the fetchMusic() calls those changes started
  \* React state
  mounted, isPlaying, currentSegmentIndex, progress, currentTime, isRendering,
  \* refs
  audioSourceRef, musicSourceRef, musicGainRef, progressIntervalRef,
  renderFrameId, voiceoverSourcesRef,
  \* the closure of the playback effect
  effectSeen,           \* the isPlaying the effect last ran for
  playbackStartTime, timeElapsedSoFar, startTimeV1,
  effectImages,         \* the imagesV2 the effect's renderLoop closes over
  segmentTimeoutV1,     \* due time of the pending V1 segment timeout, or None
  segmentTimeoutIndex,  \* the index its callback passes to playSegmentV1
  \* the browser
  now,                  \* performance.now() / Date.now(), in ticks
  rafQueue,             \* animation-frame callbacks requested, in request order
  frameRun,             \* callbacks of the frame being run that are still to run
  liveNodes,            \* audio nodes started or connected, not yet stopped and disconnected
  \* the closure of handleFinalizeAndRender
  expPc,                \* where the async function stands
  expStartTime,         \* startTime
  recorder,             \* MediaRecorder.state, "stopping" between stop() and onstop
  audioSourceNode,      \* the source of the mixed track: "none" | "playing" | "stopped"
  expMusic,             \* the musicBuffer the callback closes over
  expImages,            \* the imagesV2 the callback closes over
  \* the chat of the preview and App's state it edits
  chatbot,              \* script, mediaAssets, voiceovers, uploadedImage, the running handleSubmit
  \* one call of processInBatches
  batches,              \* its tasks, results, loop position and attempts
  \* the argument and the result of one call of a pure function of the engine
  fnIn, fnOut

props == <<version, durs, mediaCount, imagesLoad, selectedMusic, musicBuffer>>
loads == <<musicFetch, imagesV2>>
selection == <<musicTrack, musicSelections, musicFetches>>
services == <<chatbot, batches>>
fixed == <<props, loads, selection, services, fnIn, fnOut>>
reactState == <<mounted, isPlaying, currentSegmentIndex, progress, currentTime, isRendering>>
refs == <<audioSourceRef, musicSourceRef, musicGainRef, progressIntervalRef,
          renderFrameId, voiceoverSourcesRef>>
effectClosure == <<effectSeen, playbackStartTime, timeElapsedSoFar, startTimeV1,
                   effectImages, segmentTimeoutV1, segmentTimeoutIndex>>
browser == <<now, rafQueue, frameRun, liveNodes>>
expCaptured == <<expMusic, expImages>>
exportClosure == <<expPc, expStartTime, recorder, audioSourceNode, expCaptured>>

NoNode == [kind |-> "none", scene |-> None, delay |-> 0]
NarrationNode(i, d) == [kind |-> "narr", scene |-> i, delay |-> d]
MusicNode(offset) == [kind |-> "music", scene |-> None, delay |-> offset]
GainNode == [kind |-> "gain", scene |-> None, delay |-> 0]

\* the sequences of at most MaxScenes durations, each 0 (no narration buffer) .. MaxDur
DurationLists == UNION {[1..n -> 0..MaxDur] : n \in 1..MaxScenes}

total == TotalDuration(durs)

Range(f) == {f[k] : k \in DOMAIN f}

\* ------------------------------------------------------------ playback
\* cancelAnimationFrame(id): the callback leaves the frame queues
CancelFrame(queue, id) == SelectSeq(queue, LAMBDA c : c # id)

\* a faulty variant of CleanupFrames: cleanupPlayback leaves the animation frame alone
CleanupKeepsFrames(queue) == queue

\* cleanupPlayback: if (renderFrameId.current) cancelAnimationFrame(renderFrameId.current)
CleanupFrames(queue) ==
  IF renderFrameId # "none" THEN CancelFrame(queue, renderFrameId) ELSE queue

\* cleanupPlayback: every source a ref holds is stopped and disconnected
CleanupNodes ==
  liveNodes \ ({audioSourceRef, musicSourceRef, musicGainRef}
               \cup Range(voiceoverSourcesRef))

\* a faulty variant of ScheduleTest: a scene that starts at the cursor is skipped too
ScheduleTestStrict(hasVoiceover, timeSoFar, cursor) ==
  hasVoiceover /\ timeSoFar > cursor

\* if (voiceover && timeSoFar >= currentTime)
ScheduleTest(hasVoiceover, timeSoFar, cursor) ==
  hasVoiceover /\ timeSoFar >= cursor

RECURSIVE ScheduleLoop(_, _, _, _)
\* scriptV2.forEach(scene => { if (...) { source.start(ctx.currentTime + (timeSoFar - currentTime));
\*   voiceoverSourcesRef.current.push(source) } timeSoFar += voiceover?.duration || 0 })
ScheduleLoop(durations, cursor, i, timeSoFar) ==
  IF i >= Len(durations) THEN <<>>
  ELSE (IF ScheduleTest(durations[i + 1] > 0, timeSoFar, cursor)
        THEN <<NarrationNode(i, timeSoFar - cursor)>> ELSE <<>>)
       \o ScheduleLoop(durations, cursor, i + 1, timeSoFar + durations[i + 1])

ScheduleVoiceovers(durations, cursor) == ScheduleLoop(durations, cursor, 0, 0)

\* musicSrc.start(0, currentTime % musicBuffer.duration)          (v2)
MusicOffsetV2(cursor, musicDuration) == cursor % musicDuration

\* source.start(0, currentTime)                                    (v1)
MusicOffsetV1(cursor, musicDuration) == cursor

\* what the effect is busy with: a frame's callbacks run back to back, and React
\* runs a pending effect before the next event
EffectPending == mounted /\ isPlaying # effectSeen
Busy == frameRun # <<>> \/ EffectPending

\* handleTogglePlay
HandleTogglePlay ==
  /\ mounted /\ ~isRendering /\ ~Busy
  /\ IF isPlaying
     THEN /\ isPlaying' = FALSE
          /\ UNCHANGED <<currentSegmentIndex, progress, currentTime>>
     ELSE /\ isPlaying' = TRUE
          /\ IF progress >= 100
             THEN /\ currentSegmentIndex' = 0
                  /\ progress' = 0
                  /\ currentTime' = 0
             ELSE UNCHANGED <<currentSegmentIndex, progress, currentTime>>
  /\ UNCHANGED <<mounted, isRendering>>
  /\ UNCHANGED <<fixed, refs, effectClosure, browser, exportClosure>>

\* the playback effect for generationVersion === 'v2': the cleanup of the last run,
\* then the body for the new isPlaying
PlaybackEffectV2 ==
  /\ EffectPending /\ frameRun = <<>> /\ version = "v2"
  /\ effectSeen' = isPlaying
  /\ IF isPlaying
     THEN LET music == IF musicBuffer # None
                       THEN MusicNode(MusicOffsetV2(currentTime, musicBuffer))
                       ELSE NoNode
              gain == IF musicBuffer # None THEN GainNode ELSE NoNode
              sources == ScheduleVoiceovers(durs, currentTime)
          IN /\ playbackStartTime' = now - currentTime
             /\ effectImages' = imagesV2
             /\ musicSourceRef' = music
             /\ musicGainRef' = gain
             /\ voiceoverSourcesRef' = sources
             /\ liveNodes' = (CleanupNodes \cup ({music, gain} \ {NoNode}))
                             \cup Range(sources)
             /\ rafQueue' = Append(CleanupFrames(rafQueue), "pb")
             /\ renderFrameId' = "pb"
     ELSE /\ musicSourceRef' = NoNode
          /\ musicGainRef' = NoNode
          /\ voiceoverSourcesRef' = <<>>
          /\ liveNodes' = CleanupNodes
          /\ rafQueue' = CleanupFrames(rafQueue)
          /\ renderFrameId' = "none"
          /\ UNCHANGED <<playbackStartTime, effectImages>>
  /\ audioSourceRef' = NoNode
  /\ progressIntervalRef' = None
  /\ UNCHANGED <<timeElapsedSoFar, startTimeV1, segmentTimeoutV1, segmentTimeoutIndex>>
  /\ UNCHANGED <<fixed, reactState, now, frameRun, exportClosure>>

\* renderLoop, the animation-frame callback of v2 playback
RenderLoop ==
  /\ frameRun # <<>> /\ Head(frameRun) = "pb"
  /\ frameRun' = Tail(frameRun)
  /\ LET elapsed == now - playbackStartTime
         scene == ResolveScene(durs, elapsed)
     IN IF elapsed >= total
        THEN /\ isPlaying' = (IF mounted THEN FALSE ELSE isPlaying)
             /\ currentTime' = (IF mounted THEN total ELSE currentTime)
             /\ progress' = (IF mounted THEN 100 ELSE progress)
             /\ UNCHANGED <<currentSegmentIndex, rafQueue, renderFrameId>>
        ELSE /\ currentTime' = (IF mounted THEN elapsed ELSE currentTime)
             /\ progress' = (IF mounted THEN Progress(elapsed, total) ELSE progress)
             /\ currentSegmentIndex' =
                  (IF mounted THEN scene.currentSceneIdx ELSE currentSegmentIndex)
             /\ rafQueue' = Append(rafQueue, "pb")
             /\ renderFrameId' = "pb"
             /\ UNCHANGED isPlaying
  /\ UNCHANGED <<mounted, isRendering>>
  /\ UNCHANGED <<audioSourceRef, musicSourceRef, musicGainRef, progressIntervalRef,
                 voiceoverSourcesRef>>
  /\ UNCHANGED <<fixed, effectClosure, now, liveNodes, exportClosure>>

\* playSegmentV1(index), given the source the ref holds and the live nodes: the old
\* source is stopped and disconnected (the ref keeps it); past the last scene
\* setIsPlaying(false); else the scene's narration starts and the timeout for the
\* next scene is set, both only when the scene has a voiceover
PlaySegmentV1(index, oldSource, live) ==
  LET stopped == live \ {oldSource}
      source == NarrationNode(index, 0)
  IN IF index >= Len(durs)
     THEN [playing |-> FALSE, index |-> currentSegmentIndex, source |-> oldSource,
           live |-> stopped, due |-> None, next |-> None]
     ELSE IF durs[index + 1] > 0
          THEN [playing |-> TRUE, index |-> index, source |-> source,
                live |-> stopped \cup {source},
                due |-> now + durs[index + 1], next |-> index + 1]
          ELSE [playing |-> TRUE, index |-> index, source |-> oldSource,
                live |-> stopped, due |-> None, next |-> None]

\* the playback effect for generationVersion === 'v1'
PlaybackEffectV1 ==
  /\ EffectPending /\ frameRun = <<>> /\ version = "v1"
  /\ effectSeen' = isPlaying
  /\ rafQueue' = CleanupFrames(rafQueue)
  /\ renderFrameId' = "none"
  /\ voiceoverSourcesRef' = <<>>
  /\ IF isPlaying
     THEN LET music == IF musicBuffer # None
                       THEN MusicNode(MusicOffsetV1(currentTime, musicBuffer))
                       ELSE NoNode
              gain == IF musicBuffer # None THEN GainNode ELSE NoNode
              seg == PlaySegmentV1(currentSegmentIndex, NoNode,
                                   CleanupNodes \cup ({music, gain} \ {NoNode}))
          IN /\ musicSourceRef' = music
             /\ musicGainRef' = gain
             /\ timeElapsedSoFar' = SumTo(durs, currentSegmentIndex)
             /\ startTimeV1' = now
             /\ progressIntervalRef' = now + PROGRESS_INTERVAL
             /\ isPlaying' = seg.playing
             /\ currentSegmentIndex' = seg.index
             /\ audioSourceRef' = seg.source
             /\ liveNodes' = seg.live
             /\ segmentTimeoutV1' = seg.due
             /\ segmentTimeoutIndex' = seg.next
     ELSE /\ musicSourceRef' = NoNode
          /\ musicGainRef' = NoNode
          /\ audioSourceRef' = NoNode
          /\ progressIntervalRef' = None
          /\ liveNodes' = CleanupNodes
          /\ segmentTimeoutV1' = None
          /\ segmentTimeoutIndex' = None
          /\ UNCHANGED <<timeElapsedSoFar, startTimeV1, isPlaying, currentSegmentIndex>>
  /\ UNCHANGED <<mounted, progress, currentTime, isRendering, playbackStartTime,
                 effectImages>>
  /\ UNCHANGED <<fixed, now, frameRun, exportClosure>>

\* the callback of the v1 progress interval (every 100 ms)
ProgressInterval ==
  /\ ~Busy /\ progressIntervalRef # None /\ now >= progressIntervalRef
  /\ progressIntervalRef' = progressIntervalRef + PROGRESS_INTERVAL
  /\ LET elapsed == now - startTimeV1
         newCurrentTime == timeElapsedSoFar + elapsed
     IN IF newCurrentTime <= total
        THEN /\ currentTime' = newCurrentTime
             /\ progress' = Progress(newCurrentTime, total)
        ELSE /\ currentTime' = total
             /\ progress' = 100
  /\ UNCHANGED <<mounted, isPlaying, currentSegmentIndex, isRendering>>
  /\ UNCHANGED <<audioSourceRef, musicSourceRef, musicGainRef, renderFrameId,
                 voiceoverSourcesRef>>
  /\ UNCHANGED <<fixed, effectClosure, browser, exportClosure>>

\* the callback of the v1 segment timeout: if (isPlaying) playSegmentV1(index + 1)
SegmentTimeout ==
  /\ ~Busy /\ segmentTimeoutV1 # None /\ now >= segmentTimeoutV1
  /\ LET seg == PlaySegmentV1(segmentTimeoutIndex, audioSourceRef, liveNodes)
     IN /\ isPlaying' = seg.playing
        /\ currentSegmentIndex' = seg.index
        /\ audioSourceRef' = seg.source
        /\ liveNodes' = seg.live
        /\ segmentTimeoutV1' = seg.due
        /\ segmentTimeoutIndex' = seg.next
  /\ UNCHANGED <<mounted, progress, currentTime, isRendering>>
  /\ UNCHANGED <<musicSourceRef, musicGainRef, progressIntervalRef, renderFrameId,
                 voiceoverSourcesRef>>
  /\ UNCHANGED <<effectSeen, playbackStartTime, timeElapsedSoFar, startTimeV1,
                 effectImages>>
  /\ UNCHANGED <<fixed, now, rafQueue, frameRun, exportClosure>>

\* ------------------------------------------------------------ the browser
\* a timer fires at most MaxLate ticks after it is due
TimerOverdue(due) == due # None /\ now >= due + MaxLate

\* something reads the clock: a timer, a requested frame, or the export's startTime
\* taken before the image loads it awaits
ClockRead ==
  \/ progressIntervalRef # None \/ segmentTimeoutV1 # None
  \/ rafQueue # <<>>
  \/ expPc = "loading"

\* a script of a scene of 0.05 s and a scene of 0.2 s
PausedDurations == <<1, 4>>

\* the cursor of a playback paused 0.15 s into the second scene
PausedTime == 4

\* how far the clock is followed: to MaxNow, and past the end of the script that
\* is resumed from a pause
Horizon == IF durs = PausedDurations THEN total + 1 ELSE MaxNow

\* time passes (while nothing reads the clock its passing changes nothing)
Tick ==
  /\ ~Busy /\ now < Horizon /\ ClockRead
  /\ ~TimerOverdue(progressIntervalRef) /\ ~TimerOverdue(segmentTimeoutV1)
  /\ now' = now + 1
  /\ UNCHANGED <<fixed, reactState, refs, effectClosure, rafQueue, frameRun, liveNodes,
                 exportClosure>>

\* an animation frame begins: the callbacks requested so far will run, in order
BeginFrame ==
  /\ ~Busy /\ rafQueue # <<>>
  /\ frameRun' = rafQueue
  /\ rafQueue' = <<>>
  /\ UNCHANGED <<fixed, reactState, refs, effectClosure, now, liveNodes, exportClosure>>

\* React runs the cleanup the effect returned when the preview unmounts:
\* cleanupPlayback(); clearTimeout(segmentTimeoutV1)
EffectCleanupOnUnmount ==
  IF mounted
  THEN /\ mounted' = FALSE
       /\ audioSourceRef' = NoNode
       /\ musicSourceRef' = NoNode
       /\ musicGainRef' = NoNode
       /\ progressIntervalRef' = None
       /\ voiceoverSourcesRef' = <<>>
       /\ renderFrameId' = "none"
       /\ rafQueue' = CleanupFrames(rafQueue)
       /\ liveNodes' = CleanupNodes
       /\ segmentTimeoutV1' = None
       /\ segmentTimeoutIndex' = None
  ELSE UNCHANGED <<mounted, refs, rafQueue, liveNodes, segmentTimeoutV1,
                   segmentTimeoutIndex>>

\* App.handleReset ("Start New Project" in the header): the preview unmounts
HandleReset ==
  /\ mounted /\ ~Busy
  /\ EffectCleanupOnUnmount
  /\ UNCHANGED <<isPlaying, currentSegmentIndex, progress, currentTime, isRendering>>
  /\ UNCHANGED <<effectSeen, playbackStartTime, timeElapsedSoFar, startTimeV1,
                 effectImages>>
  /\ UNCHANGED <<fixed, now, frameRun, exportClosure>>

\* ------------------------------------------------------------ v1 frame
\* ((TRANSITION_DURATION - timeUntilEnd) / TRANSITION_DURATION), as a percentage
TransitionProgress(timeUntilEnd) ==
  ((TRANSITION_DURATION - timeUntilEnd) * 100) \div TRANSITION_DURATION

\* a faulty variant of OutgoingAlphaV1: the outgoing scene fades as the incoming one appears
OutgoingAlphaFaded(transitionProgress) == 100 - transitionProgress

\* ctx.globalAlpha = 1.0; drawKenBurnsFrame(ctx, images[currentSceneIndex], ...)
OutgoingAlphaV1(transitionProgress) == 100

\* one pass of the v1 frameRenderLoop below its end test: the scene, then the images
\* drawn with the alpha each is drawn at (a percentage); images has imageCount entries
FrameV1(durations, elapsed, imageCount) ==
  LET scene == ResolveScene(durations, elapsed)
      currentSceneIndex == scene.currentSceneIdx
      sceneDuration == durations[currentSceneIndex + 1]
      nextSceneIndex == currentSceneIndex + 1
      timeUntilEnd == sceneDuration - scene.timeIntoScene
      isTransitioning == timeUntilEnd < TRANSITION_DURATION /\ nextSceneIndex < imageCount
      transitionProgress == TransitionProgress(timeUntilEnd)
  IN IF currentSceneIndex >= imageCount
     THEN [threw |-> TRUE, scene |-> currentSceneIndex,
           timeIntoScene |-> scene.timeIntoScene, draws |-> <<>>]
     ELSE [threw |-> FALSE, scene |-> currentSceneIndex,
           timeIntoScene |-> scene.timeIntoScene,
           draws |-> IF isTransitioning
                     THEN << [image |-> currentSceneIndex,
                              alpha |-> OutgoingAlphaV1(transitionProgress)],
                             [image |-> nextSceneIndex, alpha |-> transitionProgress] >>
                     ELSE << [image |-> currentSceneIndex, alpha |-> 100] >>]

\* ------------------------------------------------------------ v2 compositor
\* Opacities and progresses are fractions [n, d] with d > 0; NaN is [n |-> 0, d |-> 0].
\* An element is [type, anim, start, duration, exit, exitStart, exitDuration]
\* (animation.type .start .duration and animation.exit); times are in ticks.
Frac(n, d) == [n |-> n, d |-> d]
One == Frac(1, 1)
NaN == Frac(0, 0)
IsNaN(x) == x.d = 0

\* Math.max(0, Math.min(1, (time - animation.start) / animation.duration)):
\* a division by 0 gives +-Infinity, clamped, or NaN for 0 / 0
AnimProgress(time, start, duration) ==
  IF duration > 0
  THEN Frac(IF time - start < 0 THEN 0
            ELSE IF time - start > duration THEN duration ELSE time - start,
            duration)
  ELSE IF time > start THEN Frac(1, 1)
       ELSE IF time < start THEN Frac(0, 1) ELSE NaN

\* a faulty variant of EaseInOutCubic: no easing
EaseLinear(x) == x

\* easeInOutCubic: x < 0.5 ? 4 x^3 : 1 - (-2 x + 2)^3 / 2
EaseInOutCubic(x) ==
  IF IsNaN(x) THEN NaN
  ELSE IF 2 * x.n < x.d
       THEN Frac(8 * x.n * x.n * x.n, 2 * x.d * x.d * x.d)
       ELSE Frac(2 * x.d * x.d * x.d
                   - 8 * (x.d - x.n) * (x.d - x.n) * (x.d - x.n),
                 2 * x.d * x.d * x.d)

\* if (animProgress <= 0) return   (NaN <= 0 is false)
ElementSkipped(animProgress) == ~IsNaN(animProgress) /\ animProgress.n <= 0

\* the globalAlpha an element is drawn with, ctxAlpha the one in effect before it:
\* ctx.globalAlpha = 1.0; switch (animation.type) { case 'fade-in':
\* ctx.globalAlpha = easedProgress }   (the canvas ignores an assignment of NaN)
ElementAlpha(ctxAlpha, animType, easedProgress) ==
  IF animType = "fade-in" /\ ~IsNaN(easedProgress) THEN easedProgress ELSE One

\* whether the element's body draws anything: an image needs its entry in the
\* images map, a text its text
ElementPaints(element, images) ==
  IF element.type = "image" THEN images = "loaded" ELSE TRUE

RECURSIVE DrawSceneFrom(_, _, _, _, _, _)
\* drawScene: targetScene.elements.forEach(...), from element i on; the draws made,
\* each [scene, element, alpha, progress]
DrawSceneFrom(elements, i, time, images, tag, ctxAlpha) ==
  IF i > Len(elements) THEN <<>>
  ELSE LET element == elements[i]
           animProgress == AnimProgress(time, element.start, element.duration)
           easedProgress == EaseInOutCubic(animProgress)
       IN (IF ElementSkipped(animProgress) \/ ~ElementPaints(element, images)
           THEN <<>>
           ELSE << [scene |-> tag, element |-> i,
                    alpha |-> ElementAlpha(ctxAlpha, element.anim, easedProgress),
                    progress |-> easedProgress] >>)
          \o DrawSceneFrom(elements, i + 1, time, images, tag, ctxAlpha)

\* drawScene(targetScene, time) with ctx.globalAlpha = ctxAlpha at the call
DrawScene(elements, time, images, tag, ctxAlpha) ==
  DrawSceneFrom(elements, 1, time, images, tag, ctxAlpha)

\* drawV2Frame(ctx, scene, timeIntoScene, images, voiceovers, nextScene, nextSceneTime);
\* sceneDuration is voiceovers.get(scene.id)?.duration || 0, nextScene is
\* [present, elements]
DrawV2Frame(scene, timeIntoScene, images, sceneDuration, nextScene, nextSceneTime) ==
  LET timeUntilEnd == sceneDuration - timeIntoScene
      transitionProgress ==
        ((FADE_DURATION - timeUntilEnd) * 100) \div FADE_DURATION
  IN IF nextScene.present /\ timeUntilEnd < FADE_DURATION
     THEN DrawScene(scene, timeIntoScene, images, "current",
                    Frac(100 - transitionProgress, 100))
          \o DrawScene(nextScene.elements, nextSceneTime, images, "next",
                       Frac(transitionProgress, 100))
     ELSE DrawScene(scene, timeIntoScene, images, "current", One)

\* ------------------------------------------------------------ v2 frames
\* the end-of-script null of nextScene
NoScene == [present |-> FALSE, elements |-> <<>>]

\* currentSceneIdx + 1 < scriptV2.length ? scriptV2[currentSceneIdx + 1] : null
NextSceneOf(script, sceneIdx) ==
  IF sceneIdx + 1 < Len(script)
  THEN [present |-> TRUE, elements |-> script[sceneIdx + 2]]
  ELSE NoScene

\* renderLoop's master fade: the alpha (a percentage) of the black rectangle laid
\* over the frame, None when none is laid
PreviewMasterFade(elapsed, totalDuration) ==
  IF elapsed < FADE_DURATION
  THEN 100 - (elapsed * 100) \div FADE_DURATION
  ELSE IF totalDuration - elapsed < FADE_DURATION
       THEN ((elapsed - (totalDuration - FADE_DURATION)) * 100) \div FADE_DURATION
       ELSE None

\* one pass of renderLoop: stopped, or what it resolves and draws
PreviewFrameV2(script, durations, elapsed, images) ==
  LET scene == ResolveScene(durations, elapsed)
      nextScene == NextSceneOf(script, scene.currentSceneIdx)
  IN IF elapsed >= TotalDuration(durations)
     THEN [stopped |-> TRUE, scene |-> None, timeIntoScene |-> None,
           nextScene |-> NoScene, draws |-> <<>>, fade |-> None]
     ELSE [stopped |-> FALSE,
           scene |-> scene.currentSceneIdx,
           timeIntoScene |-> scene.timeIntoScene,
           nextScene |-> nextScene,
           draws |-> DrawV2Frame(script[scene.currentSceneIdx + 1],
                                 scene.timeIntoScene, images,
                                 durations[scene.currentSceneIdx + 1], nextScene, 0),
           fade |-> PreviewMasterFade(elapsed, TotalDuration(durations))]

\* a faulty variant of ExportSceneTest: the boundary goes to the earlier scene
ExportSceneTestInclusive(elapsed, sceneEnd) == elapsed <= sceneEnd

\* frameRenderLoop (v2): if (elapsed < timeSoFar + segmentDurations[i])
ExportSceneTest(elapsed, sceneEnd) == elapsed < sceneEnd

RECURSIVE ExportSceneLoop(_, _, _, _)
\* frameRenderLoop (v2): let currentSceneIndex = 0, timeIntoScene = 0, timeSoFar = 0; for (...)
ExportSceneLoop(durations, elapsed, i, timeSoFar) ==
  IF i >= Len(durations)
  THEN [currentSceneIndex |-> 0, timeIntoScene |-> 0]
  ELSE IF ExportSceneTest(elapsed, timeSoFar + durations[i + 1])
       THEN [currentSceneIndex |-> i, timeIntoScene |-> elapsed - timeSoFar]
       ELSE ExportSceneLoop(durations, elapsed, i + 1, timeSoFar + durations[i + 1])

\* frameRenderLoop's (v2) master fade
ExportMasterFade(elapsed, totalDuration) ==
  IF elapsed < FADE_DURATION
  THEN 100 - (elapsed * 100) \div FADE_DURATION
  ELSE IF totalDuration - elapsed < FADE_DURATION
       THEN ((elapsed - (totalDuration - FADE_DURATION)) * 100) \div FADE_DURATION
       ELSE None

\* one pass of frameRenderLoop (v2)
ExportFrameV2(script, durations, elapsed, images) ==
  LET scene == ExportSceneLoop(durations, elapsed, 0, 0)
      nextScene == NextSceneOf(script, scene.currentSceneIndex)
  IN IF elapsed >= TotalDuration(durations)
     THEN [stopped |-> TRUE, scene |-> None, timeIntoScene |-> None,
           nextScene |-> NoScene, draws |-> <<>>, fade |-> None]
     ELSE [stopped |-> FALSE,
           scene |-> scene.currentSceneIndex,
           timeIntoScene |-> scene.timeIntoScene,
           nextScene |-> nextScene,
           draws |-> DrawV2Frame(script[scene.currentSceneIndex + 1],
                                 scene.timeIntoScene, images,
                                 durations[scene.currentSceneIndex + 1], nextScene, 0),
           fade |-> ExportMasterFade(elapsed, TotalDuration(durations))]

\* ------------------------------------------------------------ canvas sizes
AspectRatios == {"16:9", "9:16", "1:1", "2.35:1"}

\* handleFinalizeAndRender: const [w, h] = config.aspectRatio === '16:9' ? ... ;
\* canvas.width = w; canvas.height = h
ExportCanvasSize(aspectRatio) ==
  IF aspectRatio = "16:9" THEN <<1280, 720>>
  ELSE IF aspectRatio = "9:16" THEN <<720, 1280>>
       ELSE IF aspectRatio = "2.35:1" THEN <<1920, 817>> ELSE <<1080, 1080>>

\* <canvas ref={v2_previewCanvasRef} width={aspectRatio === '9:16' ? 720 : 1280}
\*         height={aspectRatio === '9:16' ? 1280 : 720} />
PreviewCanvasSize(aspectRatio) ==
  << IF aspectRatio = "9:16" THEN 720 ELSE 1280,
     IF aspectRatio = "9:16" THEN 1280 ELSE 720 >>

\* ------------------------------------------------------------ export
\* new OfflineAudioContext(1, Math.ceil(totalDuration * sampleRate), sampleRate):
\* the Web Audio constructor throws NotSupportedError for a length of 0
OfflineContextThrows(totalDuration) == totalDuration = 0

\* handleFinalizeAndRender up to its first await (voiceoverOfflineContext.startRendering())
HandleFinalizeAndRender ==
  /\ mounted /\ ~Busy
  /\ ~isRendering
  /\ isRendering' = TRUE
  /\ expPc' = IF OfflineContextThrows(total) THEN "rejected" ELSE "voiceover"
  /\ expMusic' = musicBuffer
  /\ expImages' = imagesV2
  /\ UNCHANGED <<mounted, isPlaying, currentSegmentIndex, progress, currentTime>>
  /\ UNCHANGED <<expStartTime, recorder, audioSourceNode>>
  /\ UNCHANGED <<fixed, refs, effectClosure, browser>>

\* recorder.start(); audioSourceNode.start(0); const startTime = performance.now();
\* then the branch on the version: v1 awaits the images, v2 requests the first
\* frame, anything else gives up with setIsRendering(false); return
StartRecording ==
  /\ recorder' = "recording"
  /\ audioSourceNode' = "playing"
  /\ expStartTime' = now
  /\ IF version = "v1" /\ mediaCount # None
     THEN /\ expPc' = "loading"
          /\ UNCHANGED <<isRendering, rafQueue, renderFrameId>>
     ELSE IF version = "v2"
          THEN /\ expPc' = "frames"
               /\ rafQueue' = Append(rafQueue, "exp")
               /\ renderFrameId' = "exp"
               /\ UNCHANGED isRendering
          ELSE /\ expPc' = "abandoned"
               /\ isRendering' = (IF mounted THEN FALSE ELSE isRendering)
               /\ UNCHANGED <<rafQueue, renderFrameId>>
  /\ UNCHANGED <<mounted, isPlaying, currentSegmentIndex, progress, currentTime>>
  /\ UNCHANGED <<audioSourceRef, musicSourceRef, musicGainRef, progressIntervalRef,
                 voiceoverSourcesRef>>
  /\ UNCHANGED <<fixed, effectClosure, now, frameRun, liveNodes, expCaptured>>

\* the narration-only rendering resolves: with music selected and loaded the mix is
\* rendered next, else the recording starts
VoiceoverRendered ==
  /\ ~Busy /\ expPc = "voiceover"
  /\ IF selectedMusic /\ expMusic # None
     THEN /\ expPc' = "mixing"
          /\ UNCHANGED <<expStartTime, recorder, audioSourceNode, expCaptured>>
          /\ UNCHANGED <<fixed, reactState, refs, effectClosure, browser>>
     ELSE StartRecording

\* mixContext.startRendering() resolves
MixRendered ==
  /\ ~Busy /\ expPc = "mixing"
  /\ StartRecording

\* Promise.all of the v1 image loads (and the watermark's) resolves: every onload
\* has fired; the frame loop is defined and its first frame requested
ImagesLoaded ==
  /\ ~Busy /\ expPc = "loading" /\ imagesLoad
  /\ expPc' = "frames"
  /\ rafQueue' = Append(rafQueue, "exp")
  /\ renderFrameId' = "exp"
  /\ UNCHANGED <<expStartTime, recorder, audioSourceNode, expCaptured>>
  /\ UNCHANGED <<audioSourceRef, musicSourceRef, musicGainRef, progressIntervalRef,
                 voiceoverSourcesRef>>
  /\ UNCHANGED <<fixed, reactState, effectClosure, now, frameRun, liveNodes>>

\* a faulty variant of ExportDone: the v1 loop stops one frame early
ExportDoneEarly(elapsed) == elapsed >= total

\* the end test of the frame loops: elapsed > totalDuration (v1), elapsed >= totalDuration (v2)
ExportDone(elapsed) ==
  IF version = "v1" THEN elapsed > total ELSE elapsed >= total

\* drawKenBurnsFrame(ctx, images[currentSceneIndex], ...) reads image.width: a
\* TypeError when mediaAssets has no entry for the scene; drawV2Frame skips an
\* element whose image is missing
DrawThrows(elapsed) == version = "v1" /\ FrameV1(durs, elapsed, mediaCount).threw

\* frameRenderLoop, the animation-frame callback of the export (v1 and v2)
FrameRenderLoop ==
  /\ frameRun # <<>> /\ Head(frameRun) = "exp"
  /\ LET elapsed == now - expStartTime
     IN IF ExportDone(elapsed)
        THEN \* recorder.stop(); if (renderFrameId.current) cancelAnimationFrame(...); return
             /\ recorder' = "stopping"
             /\ expPc' = "stopped"
             /\ rafQueue' = CleanupFrames(rafQueue)
             /\ frameRun' = CleanupFrames(Tail(frameRun))
             /\ UNCHANGED renderFrameId
        ELSE IF DrawThrows(elapsed)
             THEN \* the exception leaves the callback before the next frame is requested
                  /\ expPc' = "drawThrew"
                  /\ frameRun' = Tail(frameRun)
                  /\ UNCHANGED <<recorder, rafQueue, renderFrameId>>
             ELSE /\ frameRun' = Tail(frameRun)
                  /\ rafQueue' = Append(rafQueue, "exp")
                  /\ renderFrameId' = "exp"
                  /\ UNCHANGED <<recorder, expPc>>
  /\ UNCHANGED <<expStartTime, audioSourceNode, expCaptured>>
  /\ UNCHANGED <<audioSourceRef, musicSourceRef, musicGainRef, progressIntervalRef,
                 voiceoverSourcesRef>>
  /\ UNCHANGED <<fixed, reactState, effectClosure, now, liveNodes>>

\* recorder.onstop: setIsRendering(false); audioSourceNode.stop(); .disconnect();
\* onFinalize(videoUrl, activeScript), on which App shows the download view and
\* the preview unmounts
RecorderOnStop ==
  /\ ~Busy /\ recorder = "stopping"
  /\ recorder' = "inactive"
  /\ audioSourceNode' = "stopped"
  /\ expPc' = "done"
  /\ isRendering' = FALSE
  /\ EffectCleanupOnUnmount
  /\ UNCHANGED <<isPlaying, currentSegmentIndex, progress, currentTime>>
  /\ UNCHANGED <<effectSeen, playbackStartTime, timeElapsedSoFar, startTimeV1,
                 effectImages>>
  /\ UNCHANGED <<fixed, now, frameRun, expStartTime, expCaptured>>

\* renderLoop draws: it is not past the end and v2_previewCanvasRef holds the
\* canvas (the preview is mounted and not replaced by the Loader)
PreviewDraws ==
  /\ frameRun # <<>> /\ Head(frameRun) = "pb"
  /\ now - playbackStartTime < total
  /\ mounted /\ ~isRendering

\* frameRenderLoop draws: it is not past the end (the export canvas is its own)
ExportDraws ==
  /\ frameRun # <<>> /\ Head(frameRun) = "exp"
  /\ ~ExportDone(now - expStartTime)

\* ------------------------------------------------------------ asset loads
\* a faulty variant of FetchFailureBuffer: the catch keeps a buffer
FetchFailureKeepsBuffer == MaxDur

\* what setMusicBuffer receives in the catch of fetchMusic: setMusicBuffer(null)
FetchFailureBuffer == None

\* fetchMusic resolves: fetch, arrayBuffer and decodeAudioData succeeded;
\* setMusicBuffer(decodedBuffer)
MusicFetched ==
  /\ ~Busy /\ musicFetch = "pending"
  /\ musicFetch' = "done"
  /\ musicBuffer' = (IF mounted THEN MaxDur ELSE musicBuffer)
  /\ UNCHANGED <<version, durs, mediaCount, imagesLoad, selectedMusic, imagesV2,
                 selection, services, fnIn, fnOut>>
  /\ UNCHANGED <<reactState, refs, effectClosure, browser, exportClosure>>

\* fetchMusic throws (response not ok, network or decode error): the catch logs
\* it with console.error and calls setMusicBuffer(null)
MusicFetchFailed ==
  /\ ~Busy /\ musicFetch = "pending"
  /\ musicFetch' = "failed"
  /\ musicBuffer' = (IF mounted THEN FetchFailureBuffer ELSE musicBuffer)
  /\ UNCHANGED <<version, durs, mediaCount, imagesLoad, selectedMusic, imagesV2,
                 selection, services, fnIn, fnOut>>
  /\ UNCHANGED <<reactState, refs, effectClosure, browser, exportClosure>>

\* Promise.all(imagePromises) of the imagesV2 effect resolves, which takes every
\* onload: setImagesV2(new Map(results))
ImagesV2Loaded ==
  /\ ~Busy /\ version = "v2" /\ imagesV2 = "empty" /\ imagesLoad
  /\ mounted
  /\ imagesV2' = "loaded"
  /\ UNCHANGED <<props, musicFetch, selection, services, fnIn, fnOut>>
  /\ UNCHANGED <<reactState, refs, effectClosure, browser, exportClosure>>

\* ------------------------------------------------------------ audio mixer
\* A narration buffer of n frames at NarrationRate lasts n / NarrationRate; the
\* offline contexts render at ContextRate (audioContext.sampleRate).  A rendered
\* buffer is the sequence of its frames, each the set of what sounds in it:
\* [src, pos, gain], gain in tenths.
NarrationRate == 2
ContextRate == 3
VOICE_GAIN == 10
MUSIC_GAIN == 2

MaxMixScenes == 3
MaxFrames == 3
MaxMusicFrames == 4

\* Math.ceil(a / b) for a >= 0, b > 0
CeilDiv(a, b) == (a + b - 1) \div b

RECURSIVE SumFrames(_, _)
\* the frames of the narration buffers of the first n scenes
SumFrames(frames, n) == IF n <= 0 THEN 0 ELSE SumFrames(frames, n - 1) + frames[n]

\* Math.ceil(totalDuration * audioContext.sampleRate)
VoiceoverLength(frames) ==
  CeilDiv(SumFrames(frames, Len(frames)) * ContextRate, NarrationRate)

\* a faulty variant of AdvanceAudioTime: the cursor is not moved past the buffer
AdvanceAudioTimeNot(currentAudioTime, bufferFrames) == currentAudioTime

\* currentAudioTime += buffer.duration
AdvanceAudioTime(currentAudioTime, bufferFrames) == currentAudioTime + bufferFrames

RECURSIVE VoiceoverStarts(_, _, _)
\* for (const segment of activeScript) { const buffer = voiceovers.get(segment.id);
\*   if (buffer) { source.start(currentAudioTime); currentAudioTime += buffer.duration } }
\* the sources started, each [scene, start, frames], times in narration frames
VoiceoverStarts(frames, i, currentAudioTime) ==
  IF i >= Len(frames) THEN {}
  ELSE IF frames[i + 1] > 0
       THEN {[scene |-> i, start |-> currentAudioTime, frames |-> frames[i + 1]]}
            \cup VoiceoverStarts(frames, i + 1,
                                 AdvanceAudioTime(currentAudioTime, frames[i + 1]))
       ELSE VoiceoverStarts(frames, i + 1, currentAudioTime)

\* OfflineAudioContext.startRendering(): frame k, at time k / ContextRate, holds
\* every source that has started by then and has not yet ended
RenderSources(sources, length) ==
  [k \in 1..length |->
     {[src |-> s.scene, pos |-> (k - 1) * NarrationRate - s.start * ContextRate,
       gain |-> VOICE_GAIN] :
        s \in {x \in sources :
                 /\ x.start * ContextRate <= (k - 1) * NarrationRate
                 /\ (k - 1) * NarrationRate < (x.start + x.frames) * ContextRate}}]

\* a faulty variant of MixLength: the mix is as long as the music
MixLengthOfMusic(voiceoverLength, musicFrames) == musicFrames

\* new OfflineAudioContext(musicBuffer.numberOfChannels, voiceoverBuffer.length, sampleRate)
MixLength(voiceoverLength, musicFrames) == voiceoverLength

\* the mix: the voiceover buffer from 0 at gain 1, the music looped from 0 at gain 0.2
RenderMix(voiceoverLength, musicFrames) ==
  [k \in 1..MixLength(voiceoverLength, musicFrames) |->
     (IF k <= voiceoverLength
      THEN {[src |-> "voiceover", pos |-> k - 1, gain |-> VOICE_GAIN]} ELSE {})
     \cup {[src |-> "music", pos |-> (k - 1) % musicFrames, gain |-> MUSIC_GAIN]}]

\* the audio of handleFinalizeAndRender: the narration-only buffer, then the final
\* track; produced is FALSE when the first context cannot be constructed
MixAudio(frames, musicSelected, musicFrames) ==
  LET length == VoiceoverLength(frames)
      voiceoverBuffer == RenderSources(VoiceoverStarts(frames, 0, 0), length)
  IN IF length = 0
     THEN [produced |-> FALSE, voiceoverBuffer |-> <<>>, mixed |-> FALSE,
           finalAudioBuffer |-> <<>>]
     ELSE IF musicSelected /\ musicFrames # None
          THEN [produced |-> TRUE, voiceoverBuffer |-> voiceoverBuffer, mixed |-> TRUE,
                finalAudioBuffer |-> RenderMix(length, musicFrames)]
          ELSE [produced |-> TRUE, voiceoverBuffer |-> voiceoverBuffer, mixed |-> FALSE,
                finalAudioBuffer |-> voiceoverBuffer]

\* ------------------------------------------------------------ specification
\* the component after its first render: nothing playing, nothing exported
Idle ==
  /\ mounted = TRUE /\ isPlaying = FALSE /\ currentSegmentIndex = 0
  /\ progress = 0 /\ currentTime = 0 /\ isRendering = FALSE
  /\ audioSourceRef = NoNode /\ musicSourceRef = NoNode /\ musicGainRef = NoNode
  /\ progressIntervalRef = None /\ renderFrameId = "none"
  /\ voiceoverSourcesRef = <<>>
  /\ effectSeen = FALSE /\ playbackStartTime = 0 /\ timeElapsedSoFar = 0
  /\ effectImages = "empty"
  /\ startTimeV1 = 0 /\ segmentTimeoutV1 = None /\ segmentTimeoutIndex = None
  /\ now = 0 /\ rafQueue = <<>> /\ frameRun = <<>> /\ liveNodes = {}
  /\ expPc = "idle" /\ expStartTime = 0 /\ recorder = "inactive"
  /\ audioSourceNode = "none"
  /\ expMusic = None /\ expImages = "empty"

\* the selection as the preview was mounted with it; a track is known by the length
\* of its audio, and the track of the specifications above is the one of MaxDur
SelectionAtMount ==
  /\ musicTrack = IF selectedMusic THEN MaxDur ELSE None
  /\ musicSelections = 0
  /\ musicFetches = {}

\* a segment of the script as generated, and as change_narration rewrote it
Segment(id) == [id |-> id, narration |-> "written"]

\* the asset generated for a segment
Asset(id) == [segmentId |-> id, url |-> "generated"]

\* mediaAssets: null, or the list of the assets
NullAssets == [isNull |-> TRUE, items |-> <<>>]
Assets(items) == [isNull |-> FALSE, items |-> items]

\* App's script, mediaAssets and voiceovers as the preview was mounted with them (a
\* scene has a duration when voiceovers has its buffer), no image uploaded and no
\* message submitted to the chat
ChatAtMount ==
  chatbot = [script |-> [i \in 1..Len(durs) |-> Segment(i)],
             mediaAssets |-> IF mediaCount = None THEN NullAssets
                             ELSE Assets([i \in 1..mediaCount |-> Asset(i)]),
             voiceovers |-> [id \in {i \in 1..Len(durs) : durs[i] > 0} |-> "written"],
             uploadedImage |-> FALSE,
             submitted |-> [script |-> <<>>, uploadedImage |-> FALSE],
             toolCalls |-> 0]

\* no call of processInBatches is running
BatchesIdle == batches = [pc |-> "idle"]

NoCall == [fn |-> "none"]
NoResult == [done |-> FALSE]

Init ==
  /\ version \in {"v1", "v2"}
  /\ durs \in DurationLists
  /\ mediaCount \in IF version = "v1" THEN {None, Len(durs) - 1, Len(durs)} ELSE {None}
  /\ imagesLoad \in IF version = "v1" /\ mediaCount # None THEN BOOLEAN ELSE {TRUE}
  /\ selectedMusic \in BOOLEAN
  /\ musicBuffer = IF selectedMusic THEN MaxDur ELSE None
  /\ musicFetch = IF selectedMusic THEN "done" ELSE "none"
  /\ imagesV2 = IF version = "v2" THEN "loaded" ELSE "empty"
  /\ SelectionAtMount
  /\ ChatAtMount /\ BatchesIdle
  /\ Idle
  /\ fnIn = NoCall /\ fnOut = NoResult

vars == <<fixed, reactState, refs, effectClosure, browser, exportClosure>>

Next ==
  \/ HandleTogglePlay
  \/ PlaybackEffectV2
  \/ RenderLoop
  \/ PlaybackEffectV1
  \/ ProgressInterval
  \/ SegmentTimeout
  \/ HandleReset
  \/ HandleFinalizeAndRender
  \/ VoiceoverRendered
  \/ MixRendered
  \/ ImagesLoaded
  \/ FrameRenderLoop
  \/ RecorderOnStop
  \/ BeginFrame
  \/ Tick

Spec == Init /\ [][Next]_vars

\* the scripts the loads are followed with: one scene, two scenes
AssetDurationLists == {<<1>>, <<1, 1>>}

\* the preview from its mount on: the music fetch and the image loads are under way
AssetInit ==
  /\ version \in {"v1", "v2"}
  /\ durs \in AssetDurationLists
  /\ mediaCount \in IF version = "v1" THEN {None, Len(durs) - 1, Len(durs)} ELSE {None}
  /\ imagesLoad \in IF version = "v1" /\ mediaCount = None THEN {TRUE} ELSE BOOLEAN
  /\ selectedMusic \in BOOLEAN
  /\ musicBuffer = None
  /\ musicFetch = IF selectedMusic THEN "pending" ELSE "none"
  /\ imagesV2 = "empty"
  /\ SelectionAtMount
  /\ ChatAtMount /\ BatchesIdle
  /\ Idle
  /\ fnIn = NoCall /\ fnOut = NoResult

AssetNext ==
  \/ Next
  \/ MusicFetched
  \/ MusicFetchFailed
  \/ ImagesV2Loaded

AssetSpec == AssetInit /\ [][AssetNext]_vars

\* -- changes of the selected music while the preview is mounted (the chat's
\* change_music sets App's selectedMusic, a prop of the preview)
MaxSelections == 3

\* the tracks of the library, each known by the length of its audio
Tracks == 1..MaxDur

\* decodeAudioData of a track's file: the buffer has the track's length
TrackBuffer(track) == track

\* what a fetchMusic() that settles gives to setMusicBuffer: its own result,
\* whatever has been selected since it started
SettledBuffer(fetch, buffer) == buffer

\* selectedMusic changes to `track` (None for null) and the music effect runs for
\* it: a track with a url starts fetchMusic(), else setMusicBuffer(null)
SelectMusic ==
  /\ mounted /\ musicSelections < MaxSelections
  /\ \E track \in (Tracks \cup {None}) \ {musicTrack} :
       /\ musicTrack' = track
       /\ selectedMusic' = (track # None)
       /\ musicSelections' = musicSelections + 1
       /\ IF track # None
          THEN /\ musicFetches' = musicFetches \cup
                    {[id |-> musicSelections + 1, track |-> track, state |-> "pending"]}
               /\ UNCHANGED musicBuffer
          ELSE /\ musicBuffer' = None
               /\ UNCHANGED musicFetches
  /\ UNCHANGED <<version, durs, mediaCount, imagesLoad, loads, services, fnIn, fnOut>>
  /\ UNCHANGED <<reactState, refs, effectClosure, browser, exportClosure>>

\* a fetchMusic() started by a change resolves: setMusicBuffer(decodedBuffer)
SelectedMusicFetched ==
  /\ \E fetch \in musicFetches :
       /\ fetch.state = "pending"
       /\ musicFetches' = (musicFetches \ {fetch}) \cup {[fetch EXCEPT !.state = "done"]}
       /\ musicBuffer' = (IF mounted
                          THEN SettledBuffer(fetch, TrackBuffer(fetch.track))
                          ELSE musicBuffer)
  /\ UNCHANGED <<version, durs, mediaCount, imagesLoad, selectedMusic, loads,
                 musicTrack, musicSelections, services, fnIn, fnOut>>
  /\ UNCHANGED <<reactState, refs, effectClosure, browser, exportClosure>>

\* a fetchMusic() started by a change throws: setMusicBuffer(null)
SelectedMusicFetchFailed ==
  /\ \E fetch \in musicFetches :
       /\ fetch.state = "pending"
       /\ musicFetches' = (musicFetches \ {fetch}) \cup {[fetch EXCEPT !.state = "failed"]}
       /\ musicBuffer' = (IF mounted
                          THEN SettledBuffer(fetch, FetchFailureBuffer)
                          ELSE musicBuffer)
  /\ UNCHANGED <<version, durs, mediaCount, imagesLoad, selectedMusic, loads,
                 musicTrack, musicSelections, services, fnIn, fnOut>>
  /\ UNCHANGED <<reactState, refs, effectClosure, browser, exportClosure>>

\* the mounted preview of a v2 script of one scene, its own loads settled
MusicInit == Init /\ version = "v2" /\ durs = <<1>>

MusicNext ==
  \/ SelectMusic
  \/ SelectedMusicFetched
  \/ SelectedMusicFetchFailed

MusicSpec == MusicInit /\ [][MusicNext]_vars

\* -- the chat (Chatbot.tsx): handleSubmit runs the tool calls of one answer one
\* after the other, each through handleToolCall
MaxChatScenes == 3
MaxToolCalls == 2

\* scene_number of a tool call: any number the assistant gives
SceneNumbers == 0..(MaxChatScenes + 1)

\* Array.prototype.findIndex(a => a.segmentId === id), 0 for -1
FindIndex(assets, id) ==
  IF \E i \in 1..Len(assets) : assets[i].segmentId = id
  THEN CHOOSE i \in 1..Len(assets) :
         /\ assets[i].segmentId = id
         /\ \A j \in 1..(i - 1) : assets[j].segmentId # id
  ELSE 0

\* the updater of change_visual and replace_visual_with_user_image: the asset of
\* the segment gets the url, a null list stays null
ReplaceUrl(prev, id, url) ==
  IF prev.isNull THEN NullAssets
  ELSE LET assetIndex == FindIndex(prev.items, id)
       IN IF assetIndex # 0
          THEN Assets([prev.items EXCEPT ![assetIndex] = [@ EXCEPT !.url = url]])
          ELSE prev

\* new Map(prev).set(segmentId, audioBuffer)
MapSet(prev, id, buffer) ==
  [k \in DOMAIN prev \cup {id} |-> IF k = id THEN buffer ELSE prev[k]]

\* id of the segment add_scene makes, `segment-${Date.now()}`: later than the id
\* of every segment made before
NewSegmentId(script) == Len(script) + 1

\* setMediaAssets(prev => prev ? [...prev, newMediaAsset] : [newMediaAsset])
AppendAsset(prev, asset) ==
  IF ~prev.isNull THEN Assets(Append(prev.items, asset)) ELSE Assets(<<asset>>)

\* handleToolCall has returned: the loop of handleSubmit goes to the next call
CallDone(state) == [state EXCEPT !.toolCalls = @ - 1]

\* sceneIndex < 0 || sceneIndex >= script.length, on the script of the closure
SceneMissing(scene_number) ==
  scene_number - 1 < 0 \/ scene_number - 1 >= Len(chatbot.submitted.script)

ChatUnchanged ==
  /\ UNCHANGED <<props, loads, selection, batches, fnIn, fnOut>>
  /\ UNCHANGED <<reactState, refs, effectClosure, browser, exportClosure>>

\* handleImageUpload, the reader's onload: setUploadedImage(dataUrl)
HandleImageUpload ==
  /\ mounted /\ ~chatbot.uploadedImage
  /\ chatbot' = [chatbot EXCEPT !.uploadedImage = TRUE]
  /\ ChatUnchanged

\* handleSubmit up to the answer of processChatRequest: the handleToolCall of this
\* render, closing over its script and uploadedImage, will run the answer's calls
HandleSubmit ==
  /\ mounted /\ chatbot.toolCalls = 0
  /\ \E n \in 1..MaxToolCalls :
       chatbot' = [chatbot EXCEPT
                     !.submitted = [script |-> chatbot.script,
                                    uploadedImage |-> chatbot.uploadedImage],
                     !.toolCalls = n]
  /\ ChatUnchanged

\* handleToolCall, change_visual: refused for v2 and for a scene that is not there;
\* generateVisual resolves (ok) or throws
ChangeVisual ==
  /\ chatbot.toolCalls > 0
  /\ \E scene_number \in SceneNumbers, ok \in BOOLEAN :
       IF version = "v2" \/ SceneMissing(scene_number) \/ ~ok
       THEN chatbot' = CallDone(chatbot)
       ELSE chatbot' = CallDone([chatbot EXCEPT
              !.mediaAssets = ReplaceUrl(@, chatbot.submitted.script[scene_number].id,
                                         "regenerated")])
  /\ ChatUnchanged

\* handleToolCall, change_narration: generateVoiceover and the decoding resolve
\* (ok) or throw; the script (v1 or v2) and the voiceover of the segment change
ChangeNarration ==
  /\ chatbot.toolCalls > 0
  /\ \E scene_number \in SceneNumbers, ok \in BOOLEAN :
       IF SceneMissing(scene_number) \/ ~ok
       THEN chatbot' = CallDone(chatbot)
       ELSE LET segmentId == chatbot.submitted.script[scene_number].id
            IN chatbot' = CallDone([chatbot EXCEPT
                 !.script = [@ EXCEPT ![scene_number] = [@ EXCEPT !.narration = "edited"]],
                 !.voiceovers = MapSet(@, segmentId, "edited")])
  /\ ChatUnchanged

\* handleToolCall, add_scene: refused for v2; generateVisual, generateVoiceover and
\* the decoding resolve (ok) or one of them throws
AddScene ==
  /\ chatbot.toolCalls > 0
  /\ Len(chatbot.script) < MaxChatScenes
  /\ \E ok \in BOOLEAN :
       IF version = "v2" \/ ~ok
       THEN chatbot' = CallDone(chatbot)
       ELSE LET id == NewSegmentId(chatbot.script)
            IN chatbot' = CallDone([chatbot EXCEPT
                 !.script = Append(@, [id |-> id, narration |-> "added"]),
                 !.mediaAssets = AppendAsset(@, [segmentId |-> id, url |-> "added"]),
                 !.voiceovers = MapSet(@, id, "added")])
  /\ ChatUnchanged

\* handleToolCall, replace_visual_with_user_image: refused for v2, for a scene that
\* is not there and without an uploaded image (the one of the closure)
ReplaceVisualWithUserImage ==
  /\ chatbot.toolCalls > 0
  /\ \E scene_number \in SceneNumbers :
       IF version = "v2" \/ SceneMissing(scene_number) \/ ~chatbot.submitted.uploadedImage
       THEN chatbot' = CallDone(chatbot)
       ELSE chatbot' = CallDone([chatbot EXCEPT
              !.mediaAssets = ReplaceUrl(@, chatbot.submitted.script[scene_number].id,
                                         "uploaded"),
              !.uploadedImage = FALSE])
  /\ ChatUnchanged

\* a tool call of the chat that edits the project
ChatToolCall ==
  ChangeVisual \/ ChangeNarration \/ AddScene \/ ReplaceVisualWithUserImage

\* the preview of a project: v1 generated (an asset and a voiceover for every
\* segment), v1 whose preview generation failed (mediaAssets null, voiceovers
\* empty), or v2
ChatInit ==
  /\ Init
  /\ Len(durs) <= 2
  /\ \/ version = "v1" /\ mediaCount = Len(durs) /\ \A i \in 1..Len(durs) : durs[i] = 1
     \/ version = "v1" /\ mediaCount = None /\ \A i \in 1..Len(durs) : durs[i] = 0
     \/ version = "v2" /\ \A i \in 1..Len(durs) : durs[i] = 1
  /\ imagesLoad /\ ~selectedMusic

ChatNext ==
  \/ HandleImageUpload
  \/ HandleSubmit
  \/ ChangeVisual
  \/ ChangeNarration
  \/ AddScene
  \/ ReplaceVisualWithUserImage

ChatSpec == ChatInit /\ [][ChatNext]_vars

\* -- processInBatches (App): the tasks of a generation run in batches, the failed
\* ones of a batch are put back at the front of the queue
MaxTasks == 3
MaxBatchSize == 2
MaxFailures == 2
FAILURE_THRESHOLD == 3

\* a task that rejects on every attempt
Always == MaxFailures + 1

\* a task is known by the number of attempts that reject before one fulfils
TaskLists == UNION {[1..n -> 0..MaxFailures \cup {Always}] : n \in 1..MaxTasks}

\* the value tasks[index]() fulfils with
TaskResult(index) == index + 1

\* results[i] before a task has written it
Undefined == 0

\* outcome.status === 'fulfilled' for the task at `index`, given the attempts made
Fulfilled(run, index) ==
  run.tasks[index] # Always /\ run.attempts[index] >= run.tasks[index]

\* the items of a batch whose task rejected, in the order of the batch
RECURSIVE SelectFailed(_, _)
SelectFailed(run, queue) ==
  IF queue = <<>> THEN <<>>
  ELSE IF Fulfilled(run, Head(queue))
       THEN SelectFailed(run, Tail(queue))
       ELSE <<Head(queue)>> \o SelectFailed(run, Tail(queue))

\* processInBatches(tasks, initialBatchSize): the queue of the tasks with their
\* indices, results filled with undefined
ProcessInBatches ==
  /\ batches.pc = "idle"
  /\ \E tasks \in TaskLists, initialBatchSize \in 1..MaxBatchSize :
       batches' = [pc |-> "loop",
                   tasks |-> tasks,
                   attempts |-> [i \in 1..Len(tasks) |-> 0],
                   taskQueue |-> [i \in 1..Len(tasks) |-> i],
                   results |-> [i \in 1..Len(tasks) |-> Undefined],
                   batchSize |-> initialBatchSize,
                   failureCount |-> 0]
  /\ UNCHANGED <<props, loads, selection, chatbot, fnIn, fnOut>>
  /\ UNCHANGED <<reactState, refs, effectClosure, browser, exportClosure>>

\* one turn of the while loop: the batch is spliced off the queue and run, the
\* fulfilled tasks write results[index], the rejected ones are counted and put
\* back at the front; after three failures the batch size becomes 1.  failureCount
\* is only compared with FAILURE_THRESHOLD and is kept up to it; the attempts of a
\* task are kept up to MaxFailures
RunBatch ==
  /\ batches.pc = "loop" /\ batches.taskQueue # <<>>
  /\ LET size == IF batches.batchSize < Len(batches.taskQueue)
                 THEN batches.batchSize ELSE Len(batches.taskQueue)
         batch == SubSeq(batches.taskQueue, 1, size)
         rest == SubSeq(batches.taskQueue, size + 1, Len(batches.taskQueue))
         failedInBatch == SelectFailed(batches, batch)
         counted == batches.failureCount + Len(failedInBatch)
         failureCount == IF counted > FAILURE_THRESHOLD THEN FAILURE_THRESHOLD ELSE counted
         inBatch == {batch[i] : i \in 1..Len(batch)}
     IN batches' = [batches EXCEPT
          !.results = [i \in DOMAIN @ |->
                         IF i \in inBatch /\ Fulfilled(batches, i)
                         THEN TaskResult(i) ELSE @[i]],
          !.attempts = [i \in DOMAIN @ |->
                          IF i \in inBatch /\ @[i] < MaxFailures THEN @[i] + 1 ELSE @[i]],
          !.failureCount = failureCount,
          !.taskQueue = IF failedInBatch # <<>> THEN failedInBatch \o rest ELSE rest,
          !.batchSize = IF failedInBatch # <<>> /\ failureCount >= FAILURE_THRESHOLD
                           /\ batches.batchSize > 1
                        THEN 1 ELSE @,
          !.pc = IF failedInBatch # <<>> THEN "delay" ELSE "loop"]
  /\ UNCHANGED <<props, loads, selection, chatbot, fnIn, fnOut>>
  /\ UNCHANGED <<reactState, refs, effectClosure, browser, exportClosure>>

\* the timeout of 1500 ms before the next attempt fires
RetryDelayOver ==
  /\ batches.pc = "delay"
  /\ batches' = [batches EXCEPT !.pc = "loop"]
  /\ UNCHANGED <<props, loads, selection, chatbot, fnIn, fnOut>>
  /\ UNCHANGED <<reactState, refs, effectClosure, browser, exportClosure>>

\* the queue is empty: throw when some result is undefined, else return results
BatchesEnd ==
  /\ batches.pc = "loop" /\ batches.taskQueue = <<>>
  /\ batches' = [batches EXCEPT
       !.pc = IF \E i \in DOMAIN batches.results : batches.results[i] = Undefined
              THEN "threw" ELSE "returned"]
  /\ UNCHANGED <<props, loads, selection, chatbot, fnIn, fnOut>>
  /\ UNCHANGED <<reactState, refs, effectClosure, browser, exportClosure>>

\* one generation; the state of the preview plays no part
BatchInit ==
  /\ Init
  /\ version = "v1" /\ durs = <<1>> /\ mediaCount = 1 /\ imagesLoad /\ ~selectedMusic

BatchNext ==
  \/ ProcessInBatches
  \/ RunBatch
  \/ RetryDelayOver
  \/ BatchesEnd

\* every promise settles and every timeout fires: a step of the call that can be
\* taken is taken
BatchSpec == BatchInit /\ [][BatchNext]_vars /\ WF_vars(BatchNext)

\* the preview paused in the middle of a scene: played from the start, the cursor
\* last written at PausedTime, then handleTogglePlay and the effect's cleanup; the
\* clock is counted from the pause
PausedInit ==
  /\ version \in {"v1", "v2"}
  /\ durs = PausedDurations
  /\ mediaCount \in IF version = "v1" THEN {None, Len(durs) - 1, Len(durs)} ELSE {None}
  /\ imagesLoad \in IF version = "v1" /\ mediaCount # None THEN BOOLEAN ELSE {TRUE}
  /\ selectedMusic \in BOOLEAN
  /\ musicBuffer = IF selectedMusic THEN MaxDur ELSE None
  /\ musicFetch = IF selectedMusic THEN "done" ELSE "none"
  /\ imagesV2 = IF version = "v2" THEN "loaded" ELSE "empty"
  /\ SelectionAtMount
  /\ ChatAtMount /\ BatchesIdle
  /\ mounted = TRUE /\ isPlaying = FALSE /\ isRendering = FALSE
  /\ currentSegmentIndex = ResolveScene(durs, PausedTime).currentSceneIdx
  /\ currentTime = PausedTime /\ progress = Progress(PausedTime, total)
  /\ audioSourceRef = NoNode /\ musicSourceRef = NoNode /\ musicGainRef = NoNode
  /\ progressIntervalRef = None /\ renderFrameId = "none"
  /\ voiceoverSourcesRef = <<>>
  /\ effectSeen = FALSE /\ playbackStartTime = 0 /\ timeElapsedSoFar = 0
  /\ effectImages = imagesV2
  /\ startTimeV1 = 0 /\ segmentTimeoutV1 = None /\ segmentTimeoutIndex = None
  /\ now = 0 /\ rafQueue = <<>> /\ frameRun = <<>> /\ liveNodes = {}
  /\ expPc = "idle" /\ expStartTime = 0 /\ recorder = "inactive"
  /\ audioSourceNode = "none"
  /\ expMusic = None /\ expImages = "empty"
  /\ fnIn = NoCall /\ fnOut = NoResult

PausedSpec == PausedInit /\ [][Next]_vars

\* ------------------------------------------------------------ the pure functions
\* The frame and audio functions on their own: an input is drawn, the function
\* is applied to it, the result is kept.
MaxFrameScenes == 2
MaxFrameDur == 12

\* the example of two scenes of 3 s and 4 s
ExampleDurations == <<60, 80>>

\* t = 2.4 s and t = 2.8 s in it
ExampleTimes == {48, 56}

FrameDurationLists ==
  UNION {[1..n -> 0..MaxFrameDur] : n \in 1..MaxFrameScenes} \cup {ExampleDurations}

\* the frame loops run for 0 <= elapsed <= totalDuration
FrameTimes(d) ==
  {t \in 0..(2 * MaxFrameDur) \cup ExampleTimes : t <= TotalDuration(d)}

\* images are mediaAssets.map(...), one per asset
FrameImages(d) == {Len(d) - 1, Len(d)} \ {0}

\* a call of the scene loop or of the v1 frame
FrameInput(c) ==
  \E f \in {"ResolveScene", "FrameV1"}, d \in FrameDurationLists :
    \E t \in FrameTimes(d), n \in FrameImages(d) :
      c = [fn |-> f, durations |-> d, elapsed |-> t, images |-> n]

\* the example of narrations of 3 s and 4 s around a scene without narration
ExampleFrames == <<3 * NarrationRate, 0, 4 * NarrationRate>>

FrameCountLists ==
  UNION {[1..n -> 0..MaxFrames] : n \in 1..MaxMixScenes} \cup {ExampleFrames}

\* the selected music and its buffer, null until the track is fetched and decoded
MusicInputs ==
  {<<FALSE, None>>, <<TRUE, None>>} \cup ({TRUE} \X (1..MaxMusicFrames))

\* a call of the audio stages of the export
MixInput(c) ==
  \E f \in FrameCountLists, m \in MusicInputs :
    c = [fn |-> "MixAudio", frames |-> f, musicSelected |-> m[1], music |-> m[2]]

\* -- captions (v1 export)
\* A narration is the list of its words, each word the width measureText gives
\* it; a space has width 1 and maxTextWidth is canvasWidth * 0.9.
MaxWords == 3
MaxWordWidth == 2
MaxTextWidth == 4

RECURSIVE LineWidth(_)
\* ctx.measureText(line).width of a line of words, each followed by ' '
LineWidth(line) ==
  IF line = <<>> THEN 0 ELSE Head(line) + 1 + LineWidth(Tail(line))

RECURSIVE WrapFrom(_, _, _)
\* drawCaption: for (n ...) { testLine = line + words[n] + ' '; if (width >
\* maxTextWidth && n > 0) { lines.push(line); line = words[n] } else line = testLine }
\* lines.push(line); n counts from 1 here, a word is drawn as its index
WrapFrom(words, n, line) ==
  IF n > Len(words) THEN << line >>
  ELSE IF LineWidth(line) + words[n] + 1 > MaxTextWidth /\ n > 1
       THEN << line >> \o WrapFrom(words, n + 1, << n >>)
       ELSE WrapFrom(words, n + 1, Append(line, n))

\* drawCaption(ctx, text, w, h): the lines given to fillText, top to bottom
DrawCaption(words) == WrapFrom(words, 1, <<>>)

\* frameRenderLoop (v1): drawCaption(ctx, script[currentSceneIndex].narration, w, h),
\* whatever timeIntoScene and sceneDuration are
CaptionV1(narration, timeIntoScene, sceneDuration) == DrawCaption(narration)

\* a caption drawn for a frame of a narrated scene
CaptionInput(c) ==
  \E n \in 1..MaxWords, sceneDuration \in 1..MaxFrameDur :
    \E words \in [1..n -> 1..MaxWordWidth], timeIntoScene \in 0..(sceneDuration - 1) :
      c = [fn |-> "CaptionV1", narration |-> words, timeIntoScene |-> timeIntoScene,
           sceneDuration |-> sceneDuration]

\* bounds of the v2 calls
MaxV2Scenes == 2
MaxElementStart == 2
MaxElementDuration == 4
MaxSceneTime == 8

\* animation.exit of an element that has one, and of one that has none
ExitExample == [present |-> TRUE, start |-> 5, duration |-> 2]
NoExit == [present |-> FALSE, start |-> 0, duration |-> 0]

\* a SceneElement
Element(type, anim, start, duration, exit) ==
  [type |-> type, anim |-> anim, start |-> start, duration |-> duration,
   exit |-> exit.present, exitStart |-> exit.start, exitDuration |-> exit.duration]

\* a call of drawScene on a scene of one element, at a time and at a later time
DrawSceneInput(c) ==
  \E type \in {"image", "text"}, anim \in {"fade-in", "slide-in-left"} :
    \E start \in 0..MaxElementStart, duration \in 0..MaxElementDuration :
      \E exit \in {NoExit, ExitExample}, images \in {"empty", "loaded"} :
        \E time \in 0..MaxSceneTime :
          \E later \in time..MaxSceneTime :
            c = [fn |-> "DrawScene",
                 element |-> Element(type, anim, start, duration, exit),
                 time |-> time, later |-> later, images |-> images]

\* the scenes of the v2 calls (their elements)
SampleScenes ==
  { << Element("image", "fade-in", 0, 4, NoExit),
       Element("text", "slide-in-left", 2, 4, NoExit) >>,
    << Element("text", "fade-in", 0, 0, NoExit) >>,
    << Element("image", "slide-in-left", 0, 4, ExitExample),
       Element("text", "fade-in", 1, 2, ExitExample) >> }

\* the narration lengths of the v2 calls: none, shorter and longer than the fade
SceneDurationsV2 == {0, 6, 12}

\* a call of drawV2Frame
DrawV2FrameInput(c) ==
  \E scene \in SampleScenes, sceneDuration \in SceneDurationsV2 :
    \E nextScene \in {NoScene} \cup {[present |-> TRUE, elements |-> n] : n \in SampleScenes},
       timeIntoScene \in 0..sceneDuration, images \in {"empty", "loaded"} :
      c = [fn |-> "DrawV2Frame", scene |-> scene, timeIntoScene |-> timeIntoScene,
           images |-> images, sceneDuration |-> sceneDuration, nextScene |-> nextScene]

\* a preview tick and an export frame of the same script at the same elapsed time
FrameV2Input(c) ==
  \E n \in 1..MaxV2Scenes, images \in {"empty", "loaded"} :
    \E script \in [1..n -> SampleScenes], durations \in [1..n -> SceneDurationsV2] :
      \E elapsed \in 0..TotalDuration(durations) :
        c = [fn |-> "FrameV2", script |-> script, durations |-> durations,
             elapsed |-> elapsed, images |-> images]

\* a canvas of the export or of the v2 preview
CanvasSizeInput(c) ==
  \E aspectRatio \in AspectRatios : c = [fn |-> "CanvasSize", aspectRatio |-> aspectRatio]

FnProps ==
  /\ version = "v1" /\ durs = <<1>> /\ mediaCount = 1 /\ imagesLoad = TRUE
  /\ selectedMusic = FALSE /\ musicBuffer = None
  /\ musicFetch = "none" /\ imagesV2 = "empty"
  /\ SelectionAtMount
  /\ ChatAtMount /\ BatchesIdle

FnInit ==
  /\ FnProps /\ Idle
  /\ \/ FrameInput(fnIn) \/ MixInput(fnIn)
     \/ DrawSceneInput(fnIn) \/ DrawV2FrameInput(fnIn)
     \/ FrameV2Input(fnIn) \/ CanvasSizeInput(fnIn)
     \/ CaptionInput(fnIn)
  /\ fnOut = NoResult

machine == <<props, loads, selection, services, reactState, refs, effectClosure, browser, exportClosure>>

ApplyResolveScene ==
  /\ fnIn.fn = "ResolveScene" /\ ~fnOut.done
  /\ fnOut' = [done |-> TRUE, value |-> ResolveScene(fnIn.durations, fnIn.elapsed)]
  /\ UNCHANGED <<fnIn, machine>>

ApplyFrameV1 ==
  /\ fnIn.fn = "FrameV1" /\ ~fnOut.done
  /\ fnOut' = [done |-> TRUE,
               value |-> FrameV1(fnIn.durations, fnIn.elapsed, fnIn.images)]
  /\ UNCHANGED <<fnIn, machine>>

ApplyMixAudio ==
  /\ fnIn.fn = "MixAudio" /\ ~fnOut.done
  /\ fnOut' = [done |-> TRUE,
               value |-> MixAudio(fnIn.frames, fnIn.musicSelected, fnIn.music)]
  /\ UNCHANGED <<fnIn, machine>>

ApplyCaptionV1 ==
  /\ fnIn.fn = "CaptionV1" /\ ~fnOut.done
  /\ fnOut' = [done |-> TRUE,
               value |-> CaptionV1(fnIn.narration, fnIn.timeIntoScene,
                                   fnIn.sceneDuration)]
  /\ UNCHANGED <<fnIn, machine>>

ApplyDrawScene ==
  /\ fnIn.fn = "DrawScene" /\ ~fnOut.done
  /\ fnOut' = [done |-> TRUE,
               value |-> [at |-> DrawScene(<<fnIn.element>>, fnIn.time,
                                           fnIn.images, "current", One),
                          later |-> DrawScene(<<fnIn.element>>, fnIn.later,
                                              fnIn.images, "current", One)]]
  /\ UNCHANGED <<fnIn, machine>>

ApplyDrawV2Frame ==
  /\ fnIn.fn = "DrawV2Frame" /\ ~fnOut.done
  /\ fnOut' = [done |-> TRUE,
               value |-> DrawV2Frame(fnIn.scene, fnIn.timeIntoScene, fnIn.images,
                                     fnIn.sceneDuration, fnIn.nextScene, 0)]
  /\ UNCHANGED <<fnIn, machine>>

ApplyFrameV2 ==
  /\ fnIn.fn = "FrameV2" /\ ~fnOut.done
  /\ fnOut' = [done |-> TRUE,
               value |-> [preview |-> PreviewFrameV2(fnIn.script, fnIn.durations,
                                                     fnIn.elapsed, fnIn.images),
                          export |-> ExportFrameV2(fnIn.script, fnIn.durations,
                                                   fnIn.elapsed, fnIn.images)]]
  /\ UNCHANGED <<fnIn, machine>>

ApplyCanvasSize ==
  /\ fnIn.fn = "CanvasSize" /\ ~fnOut.done
  /\ fnOut' = [done |-> TRUE,
               value |-> [export |-> ExportCanvasSize(fnIn.aspectRatio),
                          preview |-> PreviewCanvasSize(fnIn.aspectRatio)]]
  /\ UNCHANGED <<fnIn, machine>>

FnNext ==
  \/ ApplyResolveScene \/ ApplyFrameV1 \/ ApplyMixAudio
  \/ ApplyDrawScene \/ ApplyDrawV2Frame \/ ApplyFrameV2 \/ ApplyCanvasSize
  \/ ApplyCaptionV1

FnSpec == FnInit /\ [][FnNext]_vars

\* ------------------------------------------------------------ properties
\* start(i): the sum of the durations of the scenes before scene i
SceneStart(durations, i) == SumTo(durations, i)

\* the scenes whose interval [start(i), start(i) + duration(i)) holds t
ScenesAt(durations, t) ==
  {i \in 0..(Len(durations) - 1) :
     /\ SceneStart(durations, i) <= t
     /\ t < SceneStart(durations, i) + durations[i + 1]}

\* C1: for 0 <= t < totalDuration the scene loop selects exactly the one scene i
\* with start(i) <= t < start(i) + duration(i) and sets the scene-local time to
\* t - start(i); at a boundary t = start(i) it is the later scene i that is selected.
C1_SceneResolution ==
  (fnIn.fn = "ResolveScene" /\ fnOut.done
     /\ fnIn.elapsed < TotalDuration(fnIn.durations))
  => LET r == fnOut.value
         d == fnIn.durations
         t == fnIn.elapsed
     IN /\ r.found
        /\ ScenesAt(d, t) = {r.currentSceneIdx}
        /\ r.timeIntoScene = t - SceneStart(d, r.currentSceneIdx)
        /\ \A i \in 0..(Len(d) - 1) :
             (t = SceneStart(d, i) /\ d[i + 1] > 0) => r.currentSceneIdx = i

\* C1 witness: t on the boundary between two scenes of positive length, resolved
\* to the later scene at local time 0
C1_Witness ==
  /\ fnIn.fn = "ResolveScene" /\ fnOut.done
  /\ Len(fnIn.durations) = 2
  /\ fnIn.durations[1] > 0 /\ fnIn.durations[2] > 0
  /\ fnIn.elapsed = fnIn.durations[1]
  /\ fnOut.value.currentSceneIdx = 1 /\ fnOut.value.timeIntoScene = 0

\* what the v1 frame at hand draws, given the alpha (a percentage) of the outgoing
\* scene during a transition and whether scene `next` can be faded to
V1Draws(f, outgoingAlpha, nextExists) ==
  LET i == f.scene
      timeUntilEnd == fnIn.durations[i + 1] - f.timeIntoScene
      p == ((TRANSITION_DURATION - timeUntilEnd) * 100) \div TRANSITION_DURATION
  IN IF timeUntilEnd < TRANSITION_DURATION /\ nextExists
     THEN << [image |-> i, alpha |-> IF outgoingAlpha = "1 - p" THEN 100 - p ELSE 100],
             [image |-> i + 1, alpha |-> p] >>
     ELSE << [image |-> i, alpha |-> 100] >>

NarrationStart(frames, i) == SumFrames(frames, i)

\* what sounds in frame k of a track at ContextRate in which every narration
\* starts where the narrations before it end
ConcatenatedAt(frames, k) ==
  {[src |-> i, pos |-> (k - 1) * NarrationRate - NarrationStart(frames, i) * ContextRate,
    gain |-> VOICE_GAIN] :
     i \in {j \in 0..(Len(frames) - 1) :
              /\ frames[j + 1] > 0
              /\ NarrationStart(frames, j) * ContextRate <= (k - 1) * NarrationRate
              /\ (k - 1) * NarrationRate
                   < (NarrationStart(frames, j) + frames[j + 1]) * ContextRate}}

\* C9: the first mixing stage produces one buffer of ceil(totalDuration * sampleRate)
\* samples, totalDuration the sum of the narration durations; the narration of
\* scene i starts at the sum of the narration durations before i, so that every
\* sample holds exactly one narration (no overlap, no gap); a scene without a
\* narration contributes nothing and shifts no other scene.
C9_NarrationConcatenation ==
  (fnIn.fn = "MixAudio" /\ fnOut.done /\ fnOut.value.produced)
  => LET buffer == fnOut.value.voiceoverBuffer
         frames == fnIn.frames
         totalFrames == SumFrames(frames, Len(frames))
     IN /\ (Len(buffer) - 1) * NarrationRate < totalFrames * ContextRate
        /\ totalFrames * ContextRate <= Len(buffer) * NarrationRate
        /\ \A k \in 1..Len(buffer) :
             /\ buffer[k] = ConcatenatedAt(frames, k)
             /\ Cardinality(buffer[k]) = 1
             /\ \A c \in buffer[k] : frames[c.src + 1] > 0

\* C9 witness: narrations of 3 s and 4 s around a scene without narration give a
\* 7 s track in which the 4 s narration starts at 3 s
C9_Witness ==
  /\ fnIn.fn = "MixAudio" /\ fnOut.done /\ fnOut.value.produced
  /\ fnIn.frames = ExampleFrames
  /\ Len(fnOut.value.voiceoverBuffer) = 7 * ContextRate
  /\ fnOut.value.voiceoverBuffer[3 * ContextRate + 1]
       = {[src |-> 2, pos |-> 0, gain |-> VOICE_GAIN]}
  /\ \A c \in fnOut.value.voiceoverBuffer[3 * ContextRate] : c.src = 0

\* C10: with music selected and loaded the second stage outputs a buffer as long as
\* the narration-only buffer whatever the music's length (the music looped or cut),
\* the music at gain 0.2 summed with the narration at gain 1, and this buffer is
\* the final track; otherwise the narration-only buffer is the final track.
C10_MusicMixing ==
  (fnIn.fn = "MixAudio" /\ fnOut.done /\ fnOut.value.produced)
  => LET out == fnOut.value
     IN IF fnIn.musicSelected /\ fnIn.music # None
        THEN /\ out.mixed
             /\ Len(out.finalAudioBuffer) = Len(out.voiceoverBuffer)
             /\ \A k \in 1..Len(out.finalAudioBuffer) :
                  out.finalAudioBuffer[k] =
                    {[src |-> "voiceover", pos |-> k - 1, gain |-> 10],
                     [src |-> "music", pos |-> (k - 1) % fnIn.music, gain |-> 2]}
        ELSE ~out.mixed /\ out.finalAudioBuffer = out.voiceoverBuffer

\* C10 witness: music shorter than the narration, mixed and looped past its end
C10_Witness ==
  /\ fnIn.fn = "MixAudio" /\ fnOut.done /\ fnOut.value.produced
  /\ fnIn.musicSelected /\ fnIn.music # None
  /\ fnOut.value.mixed
  /\ fnIn.music < Len(fnOut.value.voiceoverBuffer)
  /\ \E k \in 1..Len(fnOut.value.finalAudioBuffer) :
       /\ k > fnIn.music
       /\ [src |-> "music", pos |-> 0, gain |-> MUSIC_GAIN] \in fnOut.value.finalAudioBuffer[k]

\* the animation-frame callbacks requested or about to run
Scheduled == Range(rafQueue) \cup Range(frameRun)

\* a playback run is active: isPlaying, its effect has run, it holds audio sources
\* and its next tick (v2) or its timers (v1) are scheduled
PlaybackRun ==
  /\ mounted /\ isPlaying /\ effectSeen
  /\ liveNodes # {}
  /\ IF version = "v2" THEN "pb" \in Scheduled
     ELSE progressIntervalRef # None /\ segmentTimeoutV1 # None

\* an export run is active: isRendering with a frame callback scheduled
ExportRun == isRendering /\ "exp" \in Scheduled

\* C2 as stated: at no reachable state are a playback run and an export run both
\* active; once handleFinalizeAndRender has started, playback is no longer running.
C2_AsStated == ~(PlaybackRun /\ ExportRun)

\* the export can take a step of its own: a rendering or a load that will resolve,
\* a frame callback that is scheduled, an onstop that will be delivered
ExportCanStep ==
  \/ expPc \in {"voiceover", "mixing"}
  \/ expPc = "loading" /\ imagesLoad
  \/ expPc = "frames" /\ "exp" \in Scheduled
  \/ recorder = "stopping"

\* the export has finished (onFinalize called) or failed, and isRendering is false
ExportTerminal ==
  /\ expPc \in {"done", "abandoned", "failed"}
  /\ ~isRendering \/ ~mounted

\* C3 as stated: every export started by handleFinalizeAndRender reaches a terminal
\* state, finished or failed, with isRendering false: an export that has started
\* and can take no further step is in such a state, whatever happened (a draw
\* exception, an image that never loads, a total duration of 0, an unsupported
\* version/script combination).
C3_AsStated ==
  (expPc # "idle" /\ ~ExportCanStep) => ExportTerminal

\* the export has ended: normally, by a frame-draw exception, or by the early
\* return for an unsupported combination
ExportEnded == expPc \in {"done", "drawThrew", "abandoned"}

\* C4 as stated: once the recorder and the audio source have been started, every
\* way the export ends leaves the recorder stopped, the audio source stopped and
\* disconnected, and no export frame callback scheduled.
C4_AsStated ==
  ExportEnded =>
    /\ recorder = "inactive"
    /\ audioSourceNode = "stopped"
    /\ "exp" \notin Scheduled

\* playback has been paused or has stopped at the end and the effect has run its
\* cleanup, or the preview has been torn down
PlaybackStopped == ~mounted \/ (~isPlaying /\ ~effectSeen)

\* nothing of a playback run is left: no source or gain node, no timer, no tick
PlaybackReleased ==
  /\ liveNodes = {}
  /\ progressIntervalRef = None /\ segmentTimeoutV1 = None
  /\ "pb" \notin Scheduled

\* C5 as stated: after playback is paused, auto-stopped or the preview is torn
\* down, every source and gain node of the run is stopped and disconnected, the
\* interval and the segment timeout are cleared, the next tick is cancelled and no
\* playback callback runs afterwards.
C5_AsStated == PlaybackStopped => PlaybackReleased

\* C5 where no export has been started (the export shares renderFrameId)
C5_WithoutExport == (expPc = "idle" /\ PlaybackStopped) => PlaybackReleased

\* v1 playback has just stopped by itself: playSegmentV1 ran past the last scene
\* (a pause leaves the timeout of the scene being played pending)
AutoStoppedV1 ==
  /\ version = "v1" /\ mounted /\ ~isPlaying /\ effectSeen
  /\ durs[currentSegmentIndex + 1] > 0
  /\ segmentTimeoutV1 = None

\* v2 playback has just stopped by itself: renderLoop returned without requesting
\* the next frame (a pause leaves the requested frame to the effect's cleanup)
AutoStoppedV2 ==
  /\ version = "v2" /\ mounted /\ ~isPlaying /\ effectSeen
  /\ "pb" \notin Scheduled

AtTheEnd == currentTime = total /\ progress = 100

\* C6 as stated: in v1 and in v2, when playback reaches totalDuration the player
\* stops by itself and the cursor is left at the end: currentTime = totalDuration
\* and progress = 100.
C6_AsStated == (AutoStoppedV1 \/ AutoStoppedV2) => AtTheEnd

\* C6 for v2 alone
C6_V2Only == AutoStoppedV2 => AtTheEnd

\* the scenes to schedule from cursor c: those with a narration buffer whose start
\* offset is not before c
ScenesToSchedule(c) ==
  {i \in 0..(Len(durs) - 1) : durs[i + 1] > 0 /\ SceneStart(durs, i) >= c}

\* C7: when v2 playback starts from cursor c, a narration source is scheduled for
\* exactly the scenes that have a narration buffer and start at s >= c, each to
\* begin s - c after the start, in script order; scenes with s < c are skipped.
C7_NarrationScheduling ==
  [][(PlaybackEffectV2 /\ isPlaying) =>
       LET c == currentTime
           sources == voiceoverSourcesRef'
       IN /\ {sources[k].scene : k \in DOMAIN sources} = ScenesToSchedule(c)
          /\ Len(sources) = Cardinality(ScenesToSchedule(c))
          /\ \A k \in DOMAIN sources :
               /\ sources[k].kind = "narr"
               /\ sources[k].delay = SceneStart(durs, sources[k].scene) - c
               /\ sources[k] \in liveNodes'
               /\ \A j \in DOMAIN sources :
                    j < k => sources[j].scene < sources[k].scene]_vars

\* C7 witness: playback resumed at cursor 1 in scenes of 2 and 1: the first scene
\* (start 0 < 1) is skipped, the second (start 2) is scheduled 1 after the start
C7_Witness ==
  /\ version = "v2" /\ isPlaying /\ effectSeen
  /\ durs = <<2, 1>>
  /\ currentTime = 1 /\ playbackStartTime = now - 1
  /\ voiceoverSourcesRef = <<NarrationNode(1, 1)>>

\* the export has settled its audio track: the narration-only rendering has
\* resolved and the test `selectedMusic && musicBuffer` has been taken
ExportAudioDecided == expPc \notin {"idle", "rejected", "voiceover"}

\* the track the export records holds the music
ExportMixed == selectedMusic /\ expMusic # None

\* C11 as stated: for fixed narration buffers and a fixed selected track any two
\* export runs produce the same mixed track, whenever the music fetch completes
\* relative to the start of the export: in every run whose fetch succeeds the
\* track holds the music, as it does when the fetch completes before the export.
C11_AsStated == (ExportAudioDecided /\ musicFetch = "done") => ExportMixed

\* C11: the run the others are compared with, the fetch done before the export
C11_MixedRun == ExportAudioDecided /\ musicFetch = "done" /\ ExportMixed

\* a step that renders a v2 frame, of the preview or of the export
RendersV2Frame ==
  /\ version = "v2"
  /\ (RenderLoop /\ PreviewDraws) \/ (FrameRenderLoop /\ ExportDraws)

\* C12 as stated: if an image of a batch fails to load, the batch load fails with
\* an error surfaced before any frame depending on the batch is rendered, and the
\* waiting preview or export ends with that error: an export waiting for a failed
\* v1 batch can still step, and no v2 frame is rendered on a failed batch.
C12_AsStated ==
  /\ []((expPc = "loading" /\ ~imagesLoad) => ExportCanStep)
  /\ [][~imagesLoad => ~RendersV2Frame]_vars

\* C12, the v2 half alone
C12_V2Only == [][~imagesLoad => ~RendersV2Frame]_vars

C13_PlaybackCompletes ==
  /\ musicFetch = "failed" /\ version = "v2"
  /\ ~isPlaying /\ progress = 100 /\ currentTime = total

\* the imagesV2 batch is still loading: its Promise.all has not resolved yet
BatchPendingV2 == version = "v2" /\ imagesV2 = "empty" /\ imagesLoad

\* C14 as stated: no frame of the preview or of the export is rendered while an
\* image load of its batch is pending: the v1 export has no frame callback while
\* it awaits its images, and in v2 playback ticks and export frames draw only
\* after the imagesV2 batch has resolved.
C14_AsStated ==
  /\ [](expPc = "loading" => "exp" \notin Scheduled)
  /\ [][RendersV2Frame => ~BatchPendingV2]_vars

\* C14, the v1 export alone
C14_V1Only == expPc = "loading" => "exp" \notin Scheduled


PresetSize(aspectRatio) ==
  CASE aspectRatio = "16:9" -> <<1280, 720>>
    [] aspectRatio = "9:16" -> <<720, 1280>>
    [] aspectRatio = "1:1" -> <<1080, 1080>>
    [] aspectRatio = "2.35:1" -> <<1920, 817>>

\* C16 as stated: for each aspect ratio the surface the compositor draws into has
\* the preset size (16:9 -> 1280x720, 9:16 -> 720x1280, 1:1 -> 1080x1080,
\* 2.35:1 -> 1920x817), the export canvas and the v2 preview canvas alike.
C16_AsStated ==
  (fnIn.fn = "CanvasSize" /\ fnOut.done)
  => /\ fnOut.value.export = PresetSize(fnIn.aspectRatio)
     /\ fnOut.value.preview = PresetSize(fnIn.aspectRatio)

\* C16, the export canvas alone: it has the preset size of every aspect ratio
C16_ExportOnly ==
  (fnIn.fn = "CanvasSize" /\ fnOut.done)
  => fnOut.value.export = PresetSize(fnIn.aspectRatio)

\* C16, a square project: the export canvas is 1080x1080, the v2 preview canvas
\* 1280x720
C16_SquarePreview ==
  /\ fnIn.fn = "CanvasSize" /\ fnOut.done /\ fnIn.aspectRatio = "1:1"
  /\ fnOut.value.export = <<1080, 1080>>
  /\ fnOut.value.preview = <<1280, 720>>


\* C17 as stated: for a v2 element that has an exit animation, once its exit
\* progress reaches 1 (scene-local time >= exit.start + exit.duration) the
\* compositor does not draw the element any more for the rest of the scene.
C17_AsStated ==
  (fnIn.fn = "DrawScene" /\ fnOut.done /\ fnIn.element.exit)
  => /\ fnIn.time >= fnIn.element.exitStart + fnIn.element.exitDuration
          => fnOut.value.at = <<>>
     /\ fnIn.later >= fnIn.element.exitStart + fnIn.element.exitDuration
          => fnOut.value.later = <<>>

\* C17, a text with an entrance at 0 s and an exit over 0.25 s .. 0.35 s that is
\* drawn at 0.4 s, at full opacity
C17_DrawnAfterExit ==
  /\ fnIn.fn = "DrawScene" /\ fnOut.done
  /\ fnIn.element = Element("text", "fade-in", 0, 4, ExitExample)
  /\ fnIn.time = 8
  /\ Len(fnOut.value.at) = 1
  /\ fnOut.value.at[1].alpha.n = fnOut.value.at[1].alpha.d

\* equality and order of fractions with positive denominators
FracEq(a, b) == a.n * b.d = b.n * a.d
FracLeq(a, b) == a.n * b.d <= b.n * a.d

\* e(clamp((t - s) / d, 0, 1)) for d > 0, e(x) = 4 x^3 below 1/2 and
\* 1 - (2 - 2 x)^3 / 2 from 1/2 on
EasedEntrance(t, s, d) ==
  LET c == IF t - s < 0 THEN 0 ELSE IF t - s > d THEN d ELSE t - s
  IN IF 2 * c < d
     THEN Frac(4 * c * c * c, d * d * d)
     ELSE Frac(d * d * d - 4 * (d - c) * (d - c) * (d - c), d * d * d)

\* C18: for a v2 element with entrance start s and duration d > 0 the element is
\* not drawn at any scene-local time t <= s; for a fade-in entrance its opacity at
\* t > s is e(clamp((t - s) / d, 0, 1)), e the cubic ease-in-out, which lies in
\* [0, 1], never decreases as t grows, and equals 1 for every t >= s + d.
C18_EntranceVisibility ==
  (fnIn.fn = "DrawScene" /\ fnOut.done /\ fnIn.element.duration > 0)
  => LET element == fnIn.element
         s == element.start
         d == element.duration
         Drawn(t) == t > s /\ ElementPaints(element, fnIn.images)
         Opacity(draws, t) ==
           /\ Len(draws) = 1
           /\ FracEq(draws[1].alpha, EasedEntrance(t, s, d))
           /\ FracLeq(Frac(0, 1), draws[1].alpha) /\ FracLeq(draws[1].alpha, One)
           /\ t >= s + d => FracEq(draws[1].alpha, One)
     IN /\ fnIn.time <= s => fnOut.value.at = <<>>
        /\ fnIn.later <= s => fnOut.value.later = <<>>
        /\ element.anim = "fade-in"
             => /\ Drawn(fnIn.time) => Opacity(fnOut.value.at, fnIn.time)
                /\ Drawn(fnIn.later) => Opacity(fnOut.value.later, fnIn.later)
                /\ Drawn(fnIn.time)
                     => FracLeq(fnOut.value.at[1].alpha, fnOut.value.later[1].alpha)

\* C18 witness: a fade-in over 0.1 s .. 0.3 s: not drawn at 0.1 s, drawn at
\* opacity 1 at 0.3 s
C18_Witness ==
  /\ fnIn.fn = "DrawScene" /\ fnOut.done
  /\ fnIn.element = Element("text", "fade-in", 2, 4, NoExit)
  /\ fnIn.time = 2 /\ fnOut.value.at = <<>>
  /\ fnIn.later = 6 /\ Len(fnOut.value.later) = 1
  /\ FracEq(fnOut.value.later[1].alpha, One)

\* C18, the same fade-in a quarter of the way and halfway: opacities 1/16 and 1/2
C18_EasedHalfway ==
  /\ fnIn.fn = "DrawScene" /\ fnOut.done
  /\ fnIn.element = Element("text", "fade-in", 2, 4, NoExit)
  /\ fnIn.time = 3 /\ FracEq(fnOut.value.at[1].alpha, Frac(1, 16))
  /\ fnIn.later = 4 /\ FracEq(fnOut.value.later[1].alpha, Frac(1, 2))


\* the product of two fractions
FracMul(a, b) == Frac(a.n * b.n, a.d * b.d)

\* the entrance opacity of a drawn element: its eased progress for a fade-in
\* (1 when the progress is no number), 1 for the other entrances
EntranceOpacity(element, op) ==
  IF element.anim = "fade-in" /\ ~IsNaN(op.progress) THEN op.progress ELSE One

\* C19 as stated: in drawV2Frame, during the final FADE_DURATION (0.5 s) of a scene
\* that has a next scene, every element of the outgoing scene is composited with
\* the crossfade alpha 1 - p combined with the element's own entrance opacity and
\* every element of the incoming scene with alpha p, p = (0.5 - timeUntilEnd) / 0.5:
\* the crossfade alpha set before drawing a scene is in effect when each of its
\* elements is drawn.
C19_AsStated ==
  (fnIn.fn = "DrawV2Frame" /\ fnOut.done /\ fnIn.nextScene.present
     /\ fnIn.sceneDuration - fnIn.timeIntoScene < FADE_DURATION)
  => LET timeUntilEnd == fnIn.sceneDuration - fnIn.timeIntoScene
         p == Frac(FADE_DURATION - timeUntilEnd, FADE_DURATION)
         q == Frac(timeUntilEnd, FADE_DURATION)
         draws == fnOut.value
     IN \A k \in 1..Len(draws) :
          IF draws[k].scene = "current"
          THEN FracEq(draws[k].alpha,
                      FracMul(q, EntranceOpacity(fnIn.scene[draws[k].element], draws[k])))
          ELSE FracEq(draws[k].alpha,
                      FracMul(p, EntranceOpacity(fnIn.nextScene.elements[draws[k].element],
                                                 draws[k])))

\* C19, 0.3 s before the end of a 0.6 s scene that has a next scene (p = 0.4): the
\* outgoing scene's image, faded in, and its text, slid in, are both drawn at
\* alpha 1
C19_OutgoingAtFullAlpha ==
  /\ fnIn.fn = "DrawV2Frame" /\ fnOut.done /\ fnIn.nextScene.present
  /\ fnIn.scene = << Element("image", "fade-in", 0, 4, NoExit),
                     Element("text", "slide-in-left", 2, 4, NoExit) >>
  /\ fnIn.sceneDuration = 12 /\ fnIn.timeIntoScene = 6 /\ fnIn.images = "loaded"
  /\ \E k \in 1..Len(fnOut.value) :
       fnOut.value[k].scene = "current" /\ fnOut.value[k].element = 1
         /\ FracEq(fnOut.value[k].alpha, One)
  /\ \E k \in 1..Len(fnOut.value) :
       fnOut.value[k].scene = "current" /\ fnOut.value[k].element = 2
         /\ FracEq(fnOut.value[k].alpha, One)

\* C19, the incoming scene: drawn at scene-local time 0, an element whose entrance
\* starts at 0 or later and lasts is not drawn during the crossfade
C19_IncomingNotDrawn ==
  /\ fnIn.fn = "DrawV2Frame" /\ fnOut.done /\ fnIn.nextScene.present
  /\ fnIn.sceneDuration = 12 /\ fnIn.timeIntoScene = 6 /\ fnIn.images = "loaded"
  /\ fnIn.nextScene.elements = << Element("image", "fade-in", 0, 4, NoExit),
                                  Element("text", "slide-in-left", 2, 4, NoExit) >>
  /\ \A k \in 1..Len(fnOut.value) : fnOut.value[k].scene = "current"


\* the playback effect starting playback (first play or resume) with a loaded
\* music buffer
StartsMusic(effect) == effect /\ isPlaying /\ musicBuffer # None

\* C20 as stated: whenever playback starts (first play or resume) with a loaded
\* music buffer and cursor c, the looping music source is started at offset
\* c mod musicDuration, in the v1 and in the v2 playback path, so that the offset is
\* always within [0, musicDuration).
C20_AsStated ==
  [][StartsMusic(PlaybackEffectV1 \/ PlaybackEffectV2)
       => /\ musicSourceRef' = MusicNode(currentTime % musicBuffer)
          /\ musicSourceRef'.delay \in 0..(musicBuffer - 1)]_vars

\* C20, the v2 path alone
C20_V2Only ==
  [][StartsMusic(PlaybackEffectV2)
       => /\ musicSourceRef' = MusicNode(currentTime % musicBuffer)
          /\ musicSourceRef'.delay \in 0..(musicBuffer - 1)]_vars

\* C20, a v1 playback whose music source was started at an offset at or beyond
\* the end of the music buffer
C20_OffsetBeyondMusicV1 ==
  /\ version = "v1" /\ isPlaying /\ musicBuffer # None
  /\ musicSourceRef.kind = "music"
  /\ musicSourceRef.delay >= musicBuffer


\* C20, a v2 playback resumed at a cursor at or beyond the end of the music
\* buffer: the source is started at the cursor wrapped into the buffer
C20_WrappedV2 ==
  /\ version = "v2" /\ isPlaying /\ ~EffectPending /\ musicBuffer # None
  /\ currentTime >= musicBuffer /\ playbackStartTime = now - currentTime
  /\ musicSourceRef = MusicNode(currentTime % musicBuffer)


\* the alphas (percentages) of the black overlays laid over a frame
Overlays(frame) == IF frame.fade = None THEN {} ELSE {frame.fade}

\* the overlays the master fade asks for at elapsed time t of a video of length T
MasterFadeAt(overlays, t, T) ==
  /\ t < FADE_DURATION => (100 - (t * 100) \div FADE_DURATION) \in overlays
  /\ T - t < FADE_DURATION
       => ((t - (T - FADE_DURATION)) * 100) \div FADE_DURATION \in overlays
  /\ (t >= FADE_DURATION /\ T - t >= FADE_DURATION) => overlays = {}
  /\ \A a \in overlays : 0 <= a /\ a <= 100

\* C21 as stated: for every v2 frame at elapsed time t of a video of total duration
\* T a black overlay is drawn with alpha 1 - t / 0.5 whenever t is in the first
\* 0.5 s and with alpha (t - (T - 0.5)) / 0.5 whenever t is in the last 0.5 s (for
\* every T, also T < 1 s where the two windows overlap), and no overlay otherwise;
\* the overlay alpha always lies in [0, 1].
C21_AsStated ==
  (fnIn.fn = "FrameV2" /\ fnOut.done
     /\ fnIn.elapsed < TotalDuration(fnIn.durations))
  => /\ MasterFadeAt(Overlays(fnOut.value.preview), fnIn.elapsed,
                     TotalDuration(fnIn.durations))
     /\ MasterFadeAt(Overlays(fnOut.value.export), fnIn.elapsed,
                     TotalDuration(fnIn.durations))

\* C21 for videos of 1 s and more, where the two windows do not overlap
C21_WithoutOverlap ==
  (fnIn.fn = "FrameV2" /\ fnOut.done
     /\ fnIn.elapsed < TotalDuration(fnIn.durations)
     /\ TotalDuration(fnIn.durations) >= 2 * FADE_DURATION)
  => /\ MasterFadeAt(Overlays(fnOut.value.preview), fnIn.elapsed,
                     TotalDuration(fnIn.durations))
     /\ MasterFadeAt(Overlays(fnOut.value.export), fnIn.elapsed,
                     TotalDuration(fnIn.durations))

\* C21, the frame at 0.4 s of a video of 0.6 s: the only overlay is the fade-in's,
\* at alpha 0.2; the fade-out's overlay at alpha 0.6 is not drawn
C21_NoFadeOutInOverlap ==
  /\ fnIn.fn = "FrameV2" /\ fnOut.done
  /\ TotalDuration(fnIn.durations) = 12 /\ fnIn.elapsed = 8
  /\ Overlays(fnOut.value.preview) = {20}
  /\ Overlays(fnOut.value.export) = {20}

RECURSIVE Flatten(_)
\* the words of a caption, line after line
Flatten(lines) == IF lines = <<>> THEN <<>> ELSE Head(lines) \o Flatten(Tail(lines))

\* floor(t / (D / W)) + 1, the number of words revealed at scene-local time t
WordsRevealed(t, D, W) == (t * W) \div D + 1

\* C22 as stated: at scene-local time t of a v1 scene of duration D with a
\* narration of W words, the caption drawn on the frame consists of exactly the
\* first floor(t / (D / W)) + 1 words of the narration.
C22_AsStated ==
  (fnIn.fn = "CaptionV1" /\ fnOut.done)
  => Flatten(fnOut.value)
       = [k \in 1..WordsRevealed(fnIn.timeIntoScene, fnIn.sceneDuration,
                                 Len(fnIn.narration)) |-> k]

\* C22, what holds: every frame of the scene carries all the words of the
\* narration, in order
C22_WholeNarration ==
  (fnIn.fn = "CaptionV1" /\ fnOut.done)
  => Flatten(fnOut.value) = [k \in 1..Len(fnIn.narration) |-> k]

\* C22, the first frame of a scene with a narration of three words: the caption
\* has all three, on two lines
C22_AllWordsAtStart ==
  /\ fnIn.fn = "CaptionV1" /\ fnOut.done
  /\ fnIn.narration = <<1, 1, 2>> /\ fnIn.timeIntoScene = 0
  /\ fnOut.value = << <<1, 2>>, <<3>> >>

\* the scene the export frame loop resolves for a frame at elapsed time t
ExportFrameScene(t) ==
  IF version = "v1" THEN FrameV1(durs, t, mediaCount).scene
  ELSE ExportSceneLoop(durs, t, 0, 0).currentSceneIndex

\* frameRenderLoop runs and draws a frame: it is not past its end test and the
\* draw does not throw
ExportDrawsFrame ==
  FrameRenderLoop /\ ExportDraws /\ ~DrawThrows(now - expStartTime)

\* C23 as stated: every frame drawn by an export frame loop (v1 and v2) is for an
\* elapsed time t with 0 <= t < totalDuration, and the scene it draws is the scene
\* whose interval [start(i), start(i) + duration(i)) contains t; no frame is drawn
\* for a t that lies in no scene's interval.
C23_AsStated ==
  [][ExportDrawsFrame
       => LET t == now - expStartTime
          IN /\ 0 <= t /\ t < total
             /\ ScenesAt(durs, t) = {ExportFrameScene(t)}]_vars

\* C23, the v2 loop alone
C23_V2Only ==
  [][(ExportDrawsFrame /\ version = "v2")
       => LET t == now - expStartTime
          IN /\ 0 <= t /\ t < total
             /\ ScenesAt(durs, t) = {ExportFrameScene(t)}]_vars

\* C23, a v1 export whose frame callback runs at elapsed = totalDuration exactly:
\* the end test elapsed > totalDuration lets it pass, no scene holds t and the
\* loop's initial scene 0 is drawn
C23_FrameAtTheEndV1 ==
  /\ version = "v1" /\ ExportDraws /\ ~DrawThrows(now - expStartTime)
  /\ now - expStartTime = total
  /\ ScenesAt(durs, total) = {}
  /\ ExportFrameScene(total) = 0

\* C24 as stated: the animation-frame callback scheduled by a running export (its
\* id is in the renderFrameId ref that playback uses too) is never cancelled by
\* cleanupPlayback: pausing, auto-stopping or tearing down playback while an export
\* runs cannot stop the export loop before it calls recorder.stop(). The callback
\* leaves the frame queues only by being run.
C24_AsStated ==
  [][(expPc = "frames" /\ "exp" \in Scheduled /\ ~FrameRenderLoop)
       => "exp" \in Scheduled']_vars

\* C24, a preview still mounted whose export loop was cancelled: the recorder
\* records, no frame callback is scheduled and none will be
C24_ExportLoopCancelled ==
  /\ mounted /\ isRendering /\ expPc = "frames" /\ recorder = "recording"
  /\ "exp" \notin Scheduled
  /\ ~EffectPending

\* C24, the same after the preview was torn down during the export, with no
\* playback ever started
C24_CancelledByTeardown ==
  /\ ~mounted /\ ~effectSeen /\ expPc = "frames" /\ recorder = "recording"
  /\ "exp" \notin Scheduled

\* the scenes after scene i that scene resolution can select
ActiveAfter(durations, i) ==
  {j \in (i + 1)..(Len(durations) - 1) : durations[j + 1] > 0}

\* the scene that becomes the active one when scene i ends, None at the end
NextActive(durations, i) ==
  IF ActiveAfter(durations, i) = {} THEN None
  ELSE CHOOSE j \in ActiveAfter(durations, i) :
         \A k \in ActiveAfter(durations, i) : j <= k

\* a v2 frame draws a crossfade: drawV2Frame got a next scene within the last
\* FADE_DURATION of the scene
CrossfadesV2(frame, durations) ==
  /\ ~frame.stopped /\ frame.nextScene.present
  /\ durations[frame.scene + 1] - frame.timeIntoScene < FADE_DURATION

\* the incoming scene of a crossfade is the scene that plays next
IncomingIsNextV1(frame, durations) ==
  Len(frame.draws) = 2
  => /\ frame.draws[2].image = NextActive(durations, frame.scene)
     /\ durations[frame.draws[2].image + 1] > 0

IncomingIsNextV2(frame, durations, script) ==
  CrossfadesV2(frame, durations)
  => /\ NextActive(durations, frame.scene) # None
     /\ frame.nextScene.elements = script[NextActive(durations, frame.scene) + 1]
     /\ NextActive(durations, frame.scene) = frame.scene + 1

\* C25 as stated: whenever a crossfade is drawn, the incoming scene is the scene
\* that becomes the active scene when the current one ends; a scene of duration 0,
\* which scene resolution never selects as active, is never drawn as the incoming
\* scene of a crossfade either (v1 export, v2 preview and v2 export).
C25_AsStated ==
  /\ (fnIn.fn = "FrameV1" /\ fnOut.done /\ ~fnOut.value.threw
        /\ fnIn.elapsed < TotalDuration(fnIn.durations))
     => IncomingIsNextV1(fnOut.value, fnIn.durations)
  /\ (fnIn.fn = "FrameV2" /\ fnOut.done)
     => /\ IncomingIsNextV2(fnOut.value.preview, fnIn.durations, fnIn.script)
        /\ IncomingIsNextV2(fnOut.value.export, fnIn.durations, fnIn.script)

\* C25 for scripts in which every scene has a narration
C25_AllNarrated ==
  LET Narrated == \A i \in 1..Len(fnIn.durations) : fnIn.durations[i] > 0
  IN /\ (fnIn.fn = "FrameV1" /\ fnOut.done /\ ~fnOut.value.threw /\ Narrated
           /\ fnIn.elapsed < TotalDuration(fnIn.durations))
        => IncomingIsNextV1(fnOut.value, fnIn.durations)
     /\ (fnIn.fn = "FrameV2" /\ fnOut.done /\ Narrated)
        => /\ IncomingIsNextV2(fnOut.value.preview, fnIn.durations, fnIn.script)
           /\ IncomingIsNextV2(fnOut.value.export, fnIn.durations, fnIn.script)

\* C25, a v1 script of a 0.6 s scene and a scene without narration, the frame at
\* 0.4 s: the second scene, which never plays, is drawn over the first at alpha 0.6
C25_FadesToSilentSceneV1 ==
  /\ fnIn.fn = "FrameV1" /\ fnOut.done
  /\ fnIn.durations = <<12, 0>> /\ fnIn.elapsed = 8 /\ fnIn.images = 2
  /\ fnOut.value.draws = << [image |-> 0, alpha |-> 100], [image |-> 1, alpha |-> 60] >>

\* C25, the same script in v2: both loops hand the scene without narration to
\* drawV2Frame as the next scene, within the crossfade window
C25_FadesToSilentSceneV2 ==
  /\ fnIn.fn = "FrameV2" /\ fnOut.done
  /\ fnIn.durations = <<12, 0>> /\ fnIn.elapsed = 8
  /\ CrossfadesV2(fnOut.value.preview, fnIn.durations)
  /\ CrossfadesV2(fnOut.value.export, fnIn.durations)
  /\ NextActive(fnIn.durations, 0) = None

\* the playback effect starts a run (first play or resume)
StartsPlayback(effect) == effect /\ isPlaying

\* play pressed after the end was reached: the cursor is reset to 0
ResetAtTheEnd == HandleTogglePlay /\ ~isPlaying /\ progress >= 100 /\ currentTime' = 0

\* pausing leaves the cursor where it is
PauseKeepsCursor == (HandleTogglePlay /\ isPlaying) => currentTime' = currentTime

\* a run that starts counts on from the cursor: the time its clock shows at the
\* start is currentTime
ResumeFromCursorV1 ==
  StartsPlayback(PlaybackEffectV1)
    => timeElapsedSoFar' + (now - startTimeV1') = currentTime

ResumeFromCursorV2 ==
  StartsPlayback(PlaybackEffectV2) => now - playbackStartTime' = currentTime

\* the cursor moves backwards only in the reset at the end
CursorForward == currentTime' < currentTime => ResetAtTheEnd

\* C26 as stated: pausing playback leaves currentTime unchanged and resuming
\* continues from exactly that time, in v1 and in v2; over any sequence of play and
\* pause operations the cursor never moves backwards, except for the reset to 0
\* when play is pressed after the end was reached (progress >= 100).
C26_AsStated ==
  [][PauseKeepsCursor /\ ResumeFromCursorV1 /\ ResumeFromCursorV2 /\ CursorForward]_vars

\* C26, the v2 path alone
C26_V2Only ==
  [][version = "v2" => (PauseKeepsCursor /\ ResumeFromCursorV2 /\ CursorForward)]_vars

\* C26, a v1 playback paused at 0.2 s, 0.15 s into the second scene, and resumed:
\* the narration of the scene starts again and the first write of the cursor
\* puts it at 0.15 s
C26_CursorWentBackV1 ==
  /\ version = "v1" /\ isPlaying /\ effectSeen
  /\ currentSegmentIndex = 1 /\ timeElapsedSoFar = 1
  /\ currentTime = 3 /\ currentTime < PausedTime

\* no fetchMusic() is in flight
AllFetchesSettled == \A fetch \in musicFetches : fetch.state # "pending"

\* the buffer of the selection: null when no track is selected or its load
\* failed, else the decoded buffer of the selected track
BufferOfSelection ==
  IF musicTrack = None THEN None
  ELSE IF musicSelections = 0
       THEN (IF musicFetch = "done" THEN TrackBuffer(musicTrack) ELSE None)
       ELSE LET fetch == CHOOSE f \in musicFetches : f.id = musicSelections
            IN IF fetch.state = "done" THEN TrackBuffer(fetch.track) ELSE None

\* a fetch started for an earlier selection settles
EarlierFetchSettles ==
  \E fetch \in musicFetches :
    fetch.id < musicSelections /\ fetch.state = "pending" /\ fetch \notin musicFetches'

\* C27 as stated: when the selected music track changes several times, after all
\* pending music fetches have settled musicBuffer is the decoded buffer of the
\* currently selected track, or null if no track is selected or its load failed,
\* whatever order the fetches complete in; a fetch started for an earlier
\* selection never overwrites the buffer of a later selection.
C27_AsStated ==
  /\ [](AllFetchesSettled => musicBuffer = BufferOfSelection)
  /\ [][EarlierFetchSettles => musicBuffer' = musicBuffer]_vars

\* C27 while the selection has changed once at most
C27_SingleChange ==
  (musicSelections <= 1 /\ AllFetchesSettled) => musicBuffer = BufferOfSelection

\* C27, the selection changed to track 1 and then to track 2, the fetch of track 2
\* resolved first and the fetch of track 1 last: track 2 is selected and
\* musicBuffer is the audio of track 1
C27_StaleBuffer ==
  /\ musicTrack = 2 /\ musicSelections = 2 /\ AllFetchesSettled
  /\ \A fetch \in musicFetches : fetch.state = "done"
  /\ musicBuffer = TrackBuffer(1)

\* C27, the selection changed to a track and then to none, and the track's fetch
\* resolved afterwards: nothing is selected and musicBuffer holds the track
C27_BufferWithoutSelection ==
  /\ musicTrack = None /\ ~selectedMusic /\ AllFetchesSettled
  /\ musicBuffer # None


\* C28 as stated: in handleFinalizeAndRender the recorder, the mixed audio source
\* and the export clock (startTime) are started only after every image and the
\* watermark needed by the frame loop have been loaded, so no recording time and
\* no audio elapse before the first frame can be drawn.
C28_AsStated ==
  /\ [](expPc = "loading" => (recorder # "recording" /\ audioSourceNode # "playing"))
  /\ [][ImagesLoaded => now = expStartTime]_vars

\* C28 for a v2 export, whose images were loaded by the mount effect: the first
\* frame is requested in the step that starts the recorder
C28_V2Only ==
  [][(version = "v2" /\ recorder # "recording" /\ recorder' = "recording")
       => (expPc' = "frames" /\ "exp" \in Scheduled' /\ expStartTime' = now)]_vars

\* C28, a v1 export: the recorder runs, the audio plays and the export clock has
\* advanced while the image loads are still awaited
C28_RecordingWhileLoading ==
  /\ version = "v1" /\ expPc = "loading"
  /\ recorder = "recording" /\ audioSourceNode = "playing"
  /\ now > expStartTime

\* C28, a v1 export whose images never load: the recording goes on with no frame
\* ever requested
C28_RecordingWithoutImages ==
  /\ version = "v1" /\ expPc = "loading" /\ ~imagesLoad
  /\ recorder = "recording" /\ now = MaxNow


\* script and mediaAssets have the same length and mediaAssets[i].segmentId =
\* script[i].id for every i
Aligned(state) ==
  /\ ~state.mediaAssets.isNull
  /\ Len(state.mediaAssets.items) = Len(state.script)
  /\ \A i \in 1..Len(state.script) :
       state.mediaAssets.items[i].segmentId = state.script[i].id

\* every scene in script has a voiceover entry
Voiced(state) ==
  \A i \in 1..Len(state.script) : state.script[i].id \in DOMAIN state.voiceovers

\* C29 as stated: after any sequence of chat tool calls (change_visual,
\* change_narration, add_scene, replace_visual_with_user_image), each succeeding or
\* failing, the v1 script and mediaAssets have the same length,
\* mediaAssets[i].segmentId = script[i].id for every i, and every scene in script
\* has a voiceover entry.
C29_AsStated ==
  [][(version = "v1" /\ ChatToolCall) => (Aligned(chatbot') /\ Voiced(chatbot'))]_vars

\* C29 for tool calls on a project that is aligned and voiced: it stays so
C29_Preserved ==
  [][(version = "v1" /\ ChatToolCall /\ Aligned(chatbot) /\ Voiced(chatbot))
       => (Aligned(chatbot') /\ Voiced(chatbot'))]_vars

\* C29, add_scene on a v1 project whose mediaAssets is null: mediaAssets is the
\* new asset alone, beside a script of several segments
C29_AssetsOfTheAddedSceneOnly ==
  /\ version = "v1" /\ ~chatbot.mediaAssets.isNull
  /\ Len(chatbot.mediaAssets.items) = 1 /\ Len(chatbot.script) > 1
  /\ chatbot.mediaAssets.items[1].segmentId # chatbot.script[1].id


\* the call of processInBatches has returned or thrown
BatchesSettled == batches.pc \in {"returned", "threw"}

\* some task of the call rejects on every attempt
SomeTaskAlwaysFails ==
  batches.pc # "idle" /\ \E i \in DOMAIN batches.tasks : batches.tasks[i] = Always

\* results has one entry per task and results[i] is the result of tasks[i]
ResultsInOrder ==
  /\ DOMAIN batches.results = DOMAIN batches.tasks
  /\ \A i \in DOMAIN batches.tasks : batches.results[i] = TaskResult(i)

\* C30 as stated: for every list of tasks, processInBatches eventually either
\* returns one result per task, with results[i] being the result of tasks[i], or
\* throws; in particular when some task fails on every attempt the call eventually
\* throws, surfacing the failure.
C30_AsStated ==
  /\ (batches.pc # "idle") ~> BatchesSettled
  /\ [](batches.pc = "returned" => ResultsInOrder)
  /\ SomeTaskAlwaysFails ~> (batches.pc = "threw")

\* C30 when every task fulfils after some attempts: the call returns, with
\* results[i] the result of tasks[i]
C30_WhenTasksRecover ==
  /\ (batches.pc # "idle" /\ ~SomeTaskAlwaysFails) ~> (batches.pc = "returned")
  /\ [](batches.pc = "returned" => ResultsInOrder)

\* C30, the call never throws
C30_NeverThrows == [](batches.pc # "threw")

\* C30, a task that rejects on every attempt is at the front of the queue again,
\* in serial processing, after the failure threshold
C30_RetriedForEver ==
  /\ SomeTaskAlwaysFails /\ batches.pc = "delay"
  /\ batches.failureCount = FAILURE_THRESHOLD /\ batches.batchSize = 1
  /\ batches.tasks[Head(batches.taskQueue)] = Always
  /\ batches.attempts[Head(batches.taskQueue)] = MaxFailures

====
